---- MODULE Spec2Model ----
(***************************************************************************)
(* Model of the AX206 USB display output path of ax206monitor:             *)
(*   AX206USB              connection object, pseudo-SCSI framing          *)
(*   AX206USBOutputHandler lazy (re)connect wrapper around AX206USB        *)
(*   OutputManager         fan-out of a frame to the registered sinks      *)
(*   main                  render loop, capacity-1 channel, consumer       *)
(* Two specifications share the same step actions:                         *)
(*   Spec     the program: the main goroutine and the consumer goroutine   *)
(*   SpecAPI  one sequential client calling the operations in any order    *)
(* The gousb library and the file system are the environment: each of      *)
(* their calls nondeterministically returns any outcome its signature      *)
(* allows.                                                                 *)
(***************************************************************************)
EXTENDS Integers, Sequences, FiniteSets, TLC

\* ---------------------------------------------------------------- bounds
\* the clock advances in steps of TimeStep seconds
TimeStep == 5
\* frames are numbered 0..MaxFrame; frame f is an f x f pixel image
MaxFrame == 1
\* longest sink list the sequential client builds with AddHandler
MaxSinks == 3
\* most frames the render loop produces during one delivery
MaxPushes == 2
\* largest width and height of the source frames given to the pixel codec
MaxDim == 2

Frames == 0..MaxFrame
FrameW(f) == f
FrameH(f) == f

Threads == {"main", "cons"}

NIL == "nil"

\* ------------------------------------------------------- program constants
StatusLen == 13
DimReplyLen == 5
DefaultWidth == 480
DefaultHeight == 320
usbCmdSetProperty == 1
\* 0x12
usbCmdBlit == 18
\* 10*time.Second, in seconds
Window == 10
\* every time elapsed beyond the window is the same to the program
Far == Window + TimeStep

\* "USBS"
USBS == <<85, 83, 66, 83>>
\* first four bytes of the status blocks the device may send
AckHeads == {USBS, <<0, 0, 0, 0>>, <<85, 83, 66, 67>>}
\* number of bytes the status read may deliver
AckLens == {3, 4, StatusLen}
\* reply of the device to the dimension query (320x240)
DimReplies == {<<64, 1, 240, 0, 0>>}
\* number of bytes the data read of the dimension query may deliver
DimLens == {3, DimReplyLen}

\* ------------------------------------------------- bytes and bit operations
\* byte(x), uint8(x): the low 8 bits (two's complement for a negative x)
Byte(x) == x % 256

\* uint16(x): the low 16 bits
Uint16(x) == x % 65536

\* x << k and x >> k on an int (>> is the arithmetic shift)
RECURSIVE Pow2(_)
Pow2(k) == IF k = 0 THEN 1 ELSE 2 * Pow2(k - 1)

Shl(x, k) == x * Pow2(k)

Shr(x, k) == x \div Pow2(k)

\* x & y and x | y on non-negative integers, bit by bit
RECURSIVE BitAnd(_, _)
BitAnd(x, y) ==
  IF x = 0 \/ y = 0 THEN 0
  ELSE (IF x % 2 = 1 /\ y % 2 = 1 THEN 1 ELSE 0) +
       2 * BitAnd(x \div 2, y \div 2)

RECURSIVE BitOr(_, _)
BitOr(x, y) ==
  IF x = 0 THEN y
  ELSE IF y = 0 THEN x
  ELSE (IF x % 2 = 1 \/ y % 2 = 1 THEN 1 ELSE 0) +
       2 * BitOr(x \div 2, y \div 2)

\* ------------------------------------------------------------ pixel codec
\* color.RGBA{R, G, B, 0xff}.RGBA(): each 8-bit channel c becomes c | c << 8
RGBA(c) == [r |-> BitOr(c[1], Shl(c[1], 8)), g |-> BitOr(c[2], Shl(c[2], 8)),
            b |-> BitOr(c[3], Shl(c[3], 8))]

\* rgb565Model with five bits of green kept instead of six
rgb565Model_Green5(c) ==
  LET v == RGBA(c) IN
    BitOr(BitOr(Uint16(Shr(BitAnd(v.r, 63488), 0)),
                Uint16(Shr(BitAnd(v.g, 63488), 5))),
          Uint16(Shr(BitAnd(v.b, 64512), 5 + 6)))

\* rgb565Model: ColorRGB565.C of the source colour c
\* (0xF800 = 63488, 0xFC00 = 64512)
rgb565Model(c) ==
  LET v == RGBA(c) IN
    BitOr(BitOr(Uint16(Shr(BitAnd(v.r, 63488), 0)),
                Uint16(Shr(BitAnd(v.g, 64512), 5))),
          Uint16(Shr(BitAnd(v.b, 64512), 5 + 6)))

\* a source image: bounds [minX, minX+w) x [minY, minY+h), base colour c;
\* src.At(x, y) varies with the position
At(src, x, y) ==
  <<(src.c[1] + 8 * (x - src.minX)) % 256,
    (src.c[2] + 4 * (y - src.minY)) % 256,
    src.c[3]>>

\* ImageRGB565.PixOffset (0-based)
PixOffset(p, x, y) == (y - p.minY) * p.Stride + (x - p.minX) * 2

\* In with the far edges taken as part of the rectangle
In_InclusiveMax(x, y, p) ==
  /\ p.minX <= x /\ x <= p.maxX
  /\ p.minY <= y /\ y <= p.maxY

\* image.Point{x, y}.In(p.Rect)
In(x, y, p) ==
  /\ p.minX <= x /\ x < p.maxX
  /\ p.minY <= y /\ y < p.maxY

\* the two bytes at the 0-based offset i lie inside the buffer; indexing
\* outside it is a run-time panic
InBuffer(pix, i) == 0 <= i /\ i + 1 < Len(pix)

\* ImageRGB565.RGB565At: the colour it returns (C), or a panic
RGB565At(p, x, y) ==
  IF ~In(x, y, p) THEN [C |-> 0, panic |-> FALSE]
  ELSE LET i == PixOffset(p, x, y) IN
         IF ~InBuffer(p.Pix, i) THEN [C |-> 0, panic |-> TRUE]
         ELSE [C |-> BitOr(Shl(p.Pix[i + 1], 8), p.Pix[i + 2]),
               panic |-> FALSE]

\* ImageRGB565.SetRGB565 with the 16-bit colour C: the buffer afterwards, or
\* a panic
SetRGB565(p, x, y, C) ==
  IF ~In(x, y, p) THEN [Pix |-> p.Pix, panic |-> FALSE]
  ELSE LET i == PixOffset(p, x, y) IN
         IF ~InBuffer(p.Pix, i) THEN [Pix |-> p.Pix, panic |-> TRUE]
         ELSE [Pix |-> [p.Pix EXCEPT ![i + 1] = Byte(Shr(C, 8)),
                                     ![i + 2] = Byte(C)],
               panic |-> FALSE]

\* ImageRGB565.Set with the source colour c: as SetRGB565 after
\* RGB565Model.Convert(c)
Set(p, x, y, c) ==
  IF ~In(x, y, p) THEN [Pix |-> p.Pix, panic |-> FALSE]
  ELSE SetRGB565(p, x, y, rgb565Model(c))

\* NewRGB565Image: Rect = image.Rect(0, 0, w, h), Stride = w*2, and Pix of
\* w*h*2 bytes, which Set fills pixel by pixel: Pix[i] = uint8(C >> 8),
\* Pix[i+1] = uint8(C)
NewRGB565Image(src) ==
  [minX |-> 0, minY |-> 0, maxX |-> src.w, maxY |-> src.h,
   Stride |-> src.w * 2,
   Pix |-> [k \in 1..(src.w * src.h * 2) |->
              LET i == (k - 1) \div 2
                  x == i % src.w
                  y == i \div src.w
                  C == rgb565Model(At(src, x + src.minX, y + src.minY))
              IN IF (k - 1) % 2 = 0 THEN Byte(Shr(C, 8)) ELSE Byte(C)]]

\* PixRect with the two bytes per pixel forgotten in the buffer size
PixRect_OneBytePerPixel(p) ==
  LET dx == p.maxX - p.minX
      dy == p.maxY - p.minY
  IN [k \in 1..(dx * dy) |->
        p.Pix[PixOffset(p, p.minX, p.minY + ((k - 1) \div dx)) +
              ((k - 1) % dx) + 1]]

\* ImageRGB565.PixRect: a buffer of Dx*Dy*2 bytes, filled row by row
PixRect(p) ==
  LET dx == p.maxX - p.minX
      dy == p.maxY - p.minY
      bufSize == dx * dy * 2
      dxb == dx * 2
  IN [k \in 1..bufSize |->
        p.Pix[PixOffset(p, p.minX, p.minY + ((k - 1) \div dxb)) +
              ((k - 1) % dxb) + 1]]

\* ------------------------------------------------------ command descriptors
\* AX206USB.GetDimensions: cmd
GetDimensionsCmd == <<205, 0, 0, 0, 0, 2, 0, 0, 0, 0, 0, 0, 0, 0, 0, 0>>

\* Brightness without the upper clamp
Brightness_NoUpperClamp(lvl) ==
  LET l == IF lvl < 0 THEN 0 ELSE lvl
  IN <<205, 0, 0, 0, 0, 6, usbCmdSetProperty, 1, 0,
       Byte(l), Byte(Shr(l, 8)), 0, 0, 0, 0, 0>>

\* AX206USB.Brightness: cmd, after the clamp of lvl into 0..7
Brightness(lvl) ==
  LET l == IF lvl < 0 THEN 0 ELSE IF lvl > 7 THEN 7 ELSE lvl
  IN <<205, 0, 0, 0, 0, 6, usbCmdSetProperty, 1, 0,
       Byte(l), Byte(Shr(l, 8)), 0, 0, 0, 0, 0>>

\* Blit with the exclusive corner sent as it is
Blit_ExclusiveCorner(r) ==
  <<205, 0, 0, 0, 0, 6, usbCmdBlit,
    Byte(r.minX), Byte(Shr(r.minX, 8)),
    Byte(r.minY), Byte(Shr(r.minY, 8)),
    Byte(r.maxX), Byte(Shr(r.maxX, 8)),
    Byte(r.maxY), Byte(Shr(r.maxY, 8)),
    0>>

\* AX206USB.Blit: cmd for the rectangle r = img.Rect
Blit(r) ==
  <<205, 0, 0, 0, 0, 6, usbCmdBlit,
    Byte(r.minX), Byte(Shr(r.minX, 8)),
    Byte(r.minY), Byte(Shr(r.minY, 8)),
    Byte(r.maxX - 1), Byte(Shr(r.maxX - 1, 8)),
    Byte(r.maxY - 1), Byte(Shr(r.maxY - 1, 8)),
    0>>

\* scsiCmdPrepare with the direction flags exchanged
scsiCmdPrepare_FlagsSwapped(c, blockLen, out) ==
  LET bmCBWFlags == IF out THEN 128 ELSE 0
      buf == <<85, 83, 66, 67, 222, 173, 190, 239,
               Byte(blockLen), Byte(Shr(blockLen, 8)),
               Byte(Shr(blockLen, 16)), Byte(Shr(blockLen, 24)),
               bmCBWFlags, 0, Byte(Len(c)),
               205, 0, 0, 0, 0, 6, 17, 248, 112, 0, 64, 0, 0, 0, 0, 0>>
  IN [i \in 1..Len(buf) |->
        IF i > 15 /\ i - 15 <= Len(c) THEN c[i - 15] ELSE buf[i]]

\* AX206USB.scsiCmdPrepare: buf, after copy(buf[15:], cmd)
scsiCmdPrepare(c, blockLen, out) ==
  LET bmCBWFlags == IF out THEN 0 ELSE 128
      buf == <<85, 83, 66, 67, 222, 173, 190, 239,
               Byte(blockLen), Byte(Shr(blockLen, 8)),
               Byte(Shr(blockLen, 16)), Byte(Shr(blockLen, 24)),
               bmCBWFlags, 0, Byte(Len(c)),
               205, 0, 0, 0, 0, 6, 17, 248, 112, 0, 64, 0, 0, 0, 0, 0>>
  IN [i \in 1..Len(buf) |->
        IF i > 15 /\ i - 15 <= Len(c) THEN c[i - 15] ELSE buf[i]]

\* ------------------------------------------- inputs of the pure functions
\* op: the function; a: its arguments; cdb: the command descriptor (an
\* argument of scsiCmdPrepare, a result of the others); done: the function
\* has been applied; data, hasData (data != nil), env, val, panic (it
\* indexed outside a buffer): its results
FnIn(op, a, cdb) ==
  [op |-> op, a |-> a, cdb |-> cdb, done |-> FALSE, data |-> <<>>,
   hasData |-> FALSE, env |-> <<>>, val |-> 0, panic |-> FALSE]

NoFn == FnIn("none", <<>>, <<>>)

Coords == {0, 1, 255, 256, 320, 480}

\* rectangles <<x0, y0, x1, y1>> of images: x0 <= x1 and y0 <= y1
BlitRects ==
  {r \in Coords \X Coords \X Coords \X Coords : r[1] <= r[3] /\ r[2] <= r[4]}

Levels == (-4..43) \cup {-256, -255, 255, 256, 263, 65536}

Channels == {0, 7, 8, 131, 251, 252, 255}

Colours == Channels \X Channels \X Channels

\* source frames <<minX, minY, w, h, c>> of up to MaxDim x MaxDim pixels
SrcImages ==
  {-1, 0, 2} \X {0, 3} \X (0..MaxDim) \X (0..MaxDim) \X
    {<<255, 0, 0>>, <<18, 52, 86>>}

\* pixel accesses <<image, x, y>>: coordinates inside and around the
\* rectangle (0, 0, w, h) of the converted image
PixelCoords == (-1)..(MaxDim + 1)

PixelAccesses ==
  {a \in SrcImages \X PixelCoords \X PixelCoords :
     a[1][1] = 0 /\ a[1][2] = 0}

\* the colours written by the pixel accesses: to Set and to SetRGB565
SetColour == <<8, 131, 255>>

SetC == 43981

Src(a) == [minX |-> a[1], minY |-> a[2], w |-> a[3], h |-> a[4], c |-> a[5]]

Rect(a) == [minX |-> a[1], minY |-> a[2], maxX |-> a[3], maxY |-> a[4]]

\* the command descriptors of the program
Descriptors ==
  {GetDimensionsCmd, Brightness(0), Brightness(7),
   Blit(Rect(<<0, 0, 480, 320>>)), Blit(Rect(<<0, 0, 1, 1>>))}

BlockLens == {0, 2, 5, 255, 256, 65535, 65536, 307200, 16777217}

FnInputs ==
  {FnIn("Blit", r, <<>>) : r \in BlitRects} \cup
  {FnIn("Output", i, <<>>) : i \in SrcImages} \cup
  {FnIn("Set", c, <<>>) : c \in Colours} \cup
  {FnIn("Pixel", a, <<>>) : a \in PixelAccesses} \cup
  {FnIn("Brightness", <<b>>, <<>>) : b \in Levels} \cup
  {FnIn("scsiCmdPrepare", <<n, o>>, c) :
     n \in BlockLens, o \in BOOLEAN, c \in Descriptors}

VARIABLES
  pc,          \* pc[t]: position of goroutine t
  stk,         \* stk[t]: return positions of the calls in progress of t
  mutex,       \* h.mutex: "free" or the goroutine holding it
  hmade,       \* the AX206USBOutputHandler has been constructed
  hdev,        \* h.device != nil
  ldev,        \* local variable device of Output (TRUE: non-nil)
  usb,         \* the AX206USB object created by the latest NewAX206USB
  handlers,    \* om.handlers: sequence of sink types
  omi,         \* loop index of OutputManager.Output
  lastErr,     \* lastErr of OutputManager.Output
  hasSuccess,  \* hasSuccess of OutputManager.Output
  omci,        \* loop index of OutputManager.Close
  img,         \* img[t]: the frame goroutine t works on
  outputChan,  \* buffered frames of outputChan (capacity 1)
  chanClosed,  \* close(outputChan) has been executed
  outputMode,  \* config.OutputType after defaulting
  lastError,   \* time.Since(h.lastError) in seconds, capped at Far
  fn,          \* the function applied to drawn inputs, and its result
  \* ---- history variables (observations, never read by the program)
  acquired,    \* resources acquired by the latest NewAX206USB, in order
  released,    \* resources released on that object, in order
  nxerr,       \* result of the latest NewAX206USB
  cmd,         \* latest scsi command: operation, payload, result, data
  cmdlog,      \* endpoint operations of the latest scsi command, in order
  ack,         \* outcome of the latest status read
  olog,        \* events of the latest handler Output (or constructor) call
  oret,        \* result of the latest handler Output call
  ostart,      \* h.device != nil when the latest handler Output call began
  oafter,      \* h.device after the tryConnect of that call: "nil", "dev"
  conn,        \* outcome of the latest connect attempt of tryConnect
  calls,       \* sinks invoked by the latest OutputManager.Output, with results
  omret,       \* result of the latest OutputManager.Output call
  hclose,      \* handler Close calls: how many, state before, result
  push,        \* latest push of the render loop: channel before, outcome
  again,       \* the client called Close again on the latest AX206USB object
  warn         \* warnings of tryConnect: latest kind, time since, gaps

vars == <<pc, stk, mutex, hmade, hdev, ldev, usb, handlers, omi, lastErr,
          hasSuccess, omci, img, outputChan, chanClosed, outputMode,
          acquired, released, nxerr, cmd, cmdlog, ack, olog, oret, ostart,
          oafter, conn, calls, omret, hclose, push, again, lastError, fn,
          warn>>

\* groups used in UNCHANGED
logVars == <<lastError, warn>>
omVars == <<handlers, omi, lastErr, hasSuccess, omci, calls, omret>>
chanVars == <<outputChan, chanClosed, outputMode, fn, push>>
usbVars == <<usb, acquired, released, nxerr, again>>
cmdVars == <<cmd, cmdlog, ack>>
hVars == <<mutex, hmade, logVars, hdev, ldev, conn, hclose>>
oVars == <<olog, oret, ostart, oafter>>


\* ------------------------------------------------------------ call frames
Goto(t, p) == pc' = [pc EXCEPT ![t] = p]

Call(t, callee, retpc) ==
  /\ pc' = [pc EXCEPT ![t] = callee]
  /\ stk' = [stk EXCEPT ![t] = <<retpc>> \o @]

Return(t) ==
  /\ pc' = [pc EXCEPT ![t] = Head(stk[t])]
  /\ stk' = [stk EXCEPT ![t] = Tail(@)]

\* ------------------------------------------------------ AX206USB object
\* new(AX206USB): every handle nil, every flag false
NewObject ==
  [exists |-> TRUE, hasCtx |-> FALSE, hasDevice |-> FALSE, hasConfig |-> FALSE,
   hasIntf |-> FALSE, outEndp |-> FALSE, inEndp |-> FALSE,
   Width |-> 0, Height |-> 0]

NoObject == [NewObject EXCEPT !.exists = FALSE]

\* CloseReleases without the acquisition flags: every handle is released,
\* acquired or not
CloseReleases_Unconditional(u) ==
  <<"intf", "config", "device", "ctx">>

\* AX206USB.Close: the resources it releases, in the order it releases them
CloseReleases(u) ==
  (IF u.hasIntf THEN <<"intf">> ELSE <<>>) \o
  (IF u.hasConfig THEN <<"config">> ELSE <<>>) \o
  (IF u.hasDevice THEN <<"device">> ELSE <<>>) \o
  (IF u.hasCtx THEN <<"ctx">> ELSE <<>>)

\* CloseObject with the acquisition flags left set: a second Close releases
\* the same handles again
CloseObject_KeepFlags(u) == u

\* AX206USB.Close: the object afterwards
CloseObject(u) ==
  [u EXCEPT !.hasIntf = FALSE, !.hasConfig = FALSE,
            !.hasDevice = FALSE, !.hasCtx = FALSE]

\* ax206.Close() executed on the latest object
AX206USB_Close ==
  /\ usb' = CloseObject(usb)
  /\ released' = released \o CloseReleases(usb)

\* a failing acquisition step of NewAX206USB: Close, return nil, error
NxFail(t, e) ==
  /\ AX206USB_Close
  /\ nxerr' = e
  /\ Goto(t, "tc_err")
  /\ UNCHANGED <<stk, acquired, again>>

\* a successful acquisition step of NewAX206USB
NxOk(t, res, field, next) ==
  /\ usb' = [usb EXCEPT ![field] = TRUE]
  /\ acquired' = Append(acquired, res)
  /\ Goto(t, next)
  /\ UNCHANGED <<stk, released, nxerr, again>>

nxRest == <<hVars, oVars, cmdVars, omVars, chanVars, img>>

\* ax206 := new(AX206USB); ctx := gousb.NewContext()
NewAX206USB_Context(t) ==
  /\ pc[t] = "nx_ctx"
  /\ released' = <<>>
  /\ again' = FALSE
  /\ \E r \in {"ok", "nil"} :
       IF r = "ok"
       THEN /\ usb' = [NewObject EXCEPT !.hasCtx = TRUE]
            /\ acquired' = <<"ctx">>
            /\ nxerr' = "pending"
            /\ Goto(t, "nx_open")
       ELSE /\ usb' = NewObject
            /\ acquired' = <<>>
            /\ nxerr' = "failed to create USB context"
            /\ Goto(t, "tc_err")
  /\ UNCHANGED <<stk, nxRest>>

\* device, err := ctx.OpenDeviceWithVIDPID(ax206vid, ax206pid)
NewAX206USB_OpenDevice(t) ==
  /\ pc[t] = "nx_open"
  /\ \E r \in {"ok", "err", "nil"} :
       CASE r = "ok" -> NxOk(t, "device", "hasDevice", "nx_config")
         [] r = "err" -> NxFail(t, "failed to open device")
         [] r = "nil" -> NxFail(t, "device is nil")
  /\ UNCHANGED nxRest

\* config, err := device.Config(1)
NewAX206USB_Config(t) ==
  /\ pc[t] = "nx_config"
  /\ \E r \in {"ok", "err", "nil"} :
       CASE r = "ok" -> NxOk(t, "config", "hasConfig", "nx_intf")
         [] r = "err" -> NxFail(t, "failed to get config")
         [] r = "nil" -> NxFail(t, "config is nil")
  /\ UNCHANGED nxRest

\* intf, err := config.Interface(ax206interface, 0)
NewAX206USB_Interface(t) ==
  /\ pc[t] = "nx_intf"
  /\ \E r \in {"ok", "err", "nil"} :
       CASE r = "ok" -> NxOk(t, "intf", "hasIntf", "nx_out")
         [] r = "err" -> NxFail(t, "failed to get interface")
         [] r = "nil" -> NxFail(t, "interface is nil")
  /\ UNCHANGED nxRest

\* outEndp, err := intf.OutEndpoint(ax206endpOut)
NewAX206USB_OutEndpoint(t) ==
  /\ pc[t] = "nx_out"
  /\ \E r \in {"ok", "err"} :
       CASE r = "ok" -> NxOk(t, "outEndp", "outEndp", "nx_in")
         [] r = "err" -> NxFail(t, "failed to get out endpoint")
  /\ UNCHANGED nxRest

\* NewAX206USB_InEndpoint with the error ignored: construction goes on to
\* the dimension query without an input endpoint
NewAX206USB_InEndpoint_NotFatal(t) ==
  /\ pc[t] = "nx_in"
  /\ \E r \in {"ok", "err"} :
       CASE r = "ok" -> NxOk(t, "inEndp", "inEndp", "gd_call")
         [] r = "err" -> /\ Goto(t, "gd_call")
                         /\ UNCHANGED <<stk, usbVars>>
  /\ UNCHANGED nxRest

\* inEndp, err := intf.InEndpoint(ax206endpIn)
NewAX206USB_InEndpoint(t) ==
  /\ pc[t] = "nx_in"
  /\ \E r \in {"ok", "err"} :
       CASE r = "ok" -> NxOk(t, "inEndp", "inEndp", "gd_call")
         [] r = "err" -> NxFail(t, "failed to get in endpoint")
  /\ UNCHANGED nxRest
\* --------------------------------------------------- pseudo-SCSI framing
Zeros(n) == [i \in 1..n |-> 0]

\* data: the local slice data[:n] of scsiRead once it has read; rnil, rdata:
\* the data scsiRead returns (rnil: it is nil)
NoCmd ==
  [op |-> "none", name |-> "none", hasData |-> FALSE, dataLen |-> 0,
   blockLen |-> 0, ret |-> NIL, data |-> <<>>, rnil |-> TRUE, rdata |-> <<>>]

\* the arguments of a scsiWrite(cmd, data) call; hasData is data != nil
WriteCmd(name, hasData, dataLen) ==
  [op |-> "scsiWrite", name |-> name, hasData |-> hasData,
   dataLen |-> dataLen, blockLen |-> dataLen, ret |-> "pending",
   data |-> <<>>, rnil |-> TRUE, rdata |-> <<>>]

\* the arguments of a scsiRead(cmd, blockLen) call
ReadCmd(name, blockLen) ==
  [op |-> "scsiRead", name |-> name, hasData |-> FALSE, dataLen |-> 0,
   blockLen |-> blockLen, ret |-> "pending", data |-> <<>>, rnil |-> TRUE,
   rdata |-> <<>>]

NoAck == [got |-> FALSE, io |-> FALSE, n |-> 0, buf |-> Zeros(StatusLen)]

\* buf := make([]byte, 13); n, err := inEndp.Read(buf), the device sending
\* n bytes of a block that starts with head
AckBuf(n, head) ==
  [i \in 1..StatusLen |-> IF i <= n /\ i <= 4 THEN head[i] ELSE 0]

\* AckResult with the signature comparison forgotten: any block of at least
\* four bytes is accepted
AckResult_AnyBlock(io, n, buf) ==
  IF io THEN "ACK read failed"
  ELSE IF n < 4 THEN "Got invalid reply"
  ELSE NIL

\* scsiGetAck: the error it returns
AckResult(io, n, buf) ==
  IF io THEN "ACK read failed"
  ELSE IF n < 4 \/ SubSeq(buf, 1, 4) # USBS THEN "Got invalid reply"
  ELSE NIL

scsiRest == <<hVars, usbVars, omVars, chanVars, img, oret, ostart, oafter>>

\* scsiWrite: outEndp.Write(scsiCmdPrepare(cmd, len(data), true))
scsiWrite_Command(t) ==
  /\ pc[t] = "sw_env"
  /\ \E ok \in BOOLEAN :
       /\ cmdlog' = Append(cmdlog, [step |-> "env", ok |-> ok])
       /\ olog' = Append(olog, <<cmd.name, "env">>)
       /\ IF ok
          THEN /\ Goto(t, IF cmd.hasData THEN "sw_data" ELSE "ack")
               /\ UNCHANGED <<stk, cmd>>
          ELSE /\ cmd' = [cmd EXCEPT !.ret = "command write failed"]
               /\ Return(t)
  /\ UNCHANGED <<scsiRest, ack>>

\* scsiWrite_Data with the error of the payload write ignored: the status
\* read follows a failed payload write
scsiWrite_Data_IgnoreError(t) ==
  /\ pc[t] = "sw_data"
  /\ \E ok \in BOOLEAN :
       /\ cmdlog' = Append(cmdlog, [step |-> "payload", ok |-> ok])
       /\ olog' = Append(olog, <<cmd.name, "payload">>)
       /\ Goto(t, "ack")
       /\ UNCHANGED <<stk, cmd>>
  /\ UNCHANGED <<scsiRest, ack>>

\* scsiWrite: if data != nil { outEndp.Write(data) }
scsiWrite_Data(t) ==
  /\ pc[t] = "sw_data"
  /\ \E ok \in BOOLEAN :
       /\ cmdlog' = Append(cmdlog, [step |-> "payload", ok |-> ok])
       /\ olog' = Append(olog, <<cmd.name, "payload">>)
       /\ IF ok
          THEN /\ Goto(t, "ack")
               /\ UNCHANGED <<stk, cmd>>
          ELSE /\ cmd' = [cmd EXCEPT !.ret = "data write failed"]
               /\ Return(t)
  /\ UNCHANGED <<scsiRest, ack>>

\* scsiRead: outEndp.Write(scsiCmdPrepare(cmd, blockLen, false))
scsiRead_Command(t) ==
  /\ pc[t] = "sr_env"
  /\ \E ok \in BOOLEAN :
       /\ cmdlog' = Append(cmdlog, [step |-> "env", ok |-> ok])
       /\ olog' = Append(olog, <<cmd.name, "env">>)
       /\ IF ok
          THEN /\ Goto(t, "sr_data")
               /\ UNCHANGED <<stk, cmd>>
          ELSE /\ cmd' = [cmd EXCEPT !.ret = "command write failed"]
               /\ Return(t)
  /\ UNCHANGED <<scsiRest, ack>>

\* scsiRead: data := make([]byte, blockLen); n, err := inEndp.Read(data)
scsiRead_Data(t) ==
  /\ pc[t] = "sr_data"
  /\ \E ok \in BOOLEAN, n \in DimLens, reply \in DimReplies :
       /\ ~ok => (n = DimReplyLen /\ reply = CHOOSE r \in DimReplies : TRUE)
       /\ n <= cmd.blockLen
       /\ cmdlog' = Append(cmdlog, [step |-> "data", ok |-> ok])
       /\ olog' = Append(olog, <<cmd.name, "data">>)
       /\ IF ok
          THEN /\ cmd' = [cmd EXCEPT !.data = SubSeq(reply, 1, n)]
               /\ Goto(t, "ack")
               /\ UNCHANGED stk
          ELSE /\ cmd' = [cmd EXCEPT !.ret = "data read failed"]
               /\ Return(t)
  /\ UNCHANGED <<scsiRest, ack>>

\* scsiRead_Result with the data withheld when the status check failed
scsiRead_Result_NilOnError(data, err) ==
  IF err # NIL THEN [rnil |-> TRUE, rdata |-> <<>>]
  ELSE [rnil |-> FALSE, rdata |-> data]

\* scsiRead_Result returning the whole buffer of blockLen bytes (data instead
\* of data[:n]); the only caller reads DimReplyLen bytes
scsiRead_Result_WholeBuffer(data, err) ==
  [rnil |-> FALSE, rdata |-> data \o Zeros(DimReplyLen - Len(data))]

\* scsiRead: err = ax206.scsiGetAck(); if err != nil { return data[:n], err };
\* return data[:n], nil: the data it returns
scsiRead_Result(data, err) == [rnil |-> FALSE, rdata |-> data]

\* scsiGetAck, and the return of the scsiWrite or scsiRead that called it
scsiGetAck(t) ==
  /\ pc[t] = "ack"
  /\ \E io \in BOOLEAN, n \in AckLens, head \in AckHeads :
       /\ io => (n = 3 /\ head = USBS)
       /\ ack' = [got |-> TRUE, io |-> io, n |-> n, buf |-> AckBuf(n, head)]
       /\ LET err == AckResult(io, n, AckBuf(n, head))
              res == scsiRead_Result(cmd.data, err)
          IN cmd' = IF cmd.op = "scsiRead"
                    THEN [cmd EXCEPT !.ret = err, !.rnil = res.rnil,
                                     !.rdata = res.rdata]
                    ELSE [cmd EXCEPT !.ret = err]
       /\ conn' = IF cmd.name = "Brightness"
                  THEN [conn EXCEPT !.ack = ack']
                  ELSE conn
  /\ cmdlog' = Append(cmdlog, [step |-> "status", ok |-> cmd'.ret = NIL])
  /\ olog' = Append(olog, <<cmd.name, "status">>)
  /\ Return(t)
  /\ UNCHANGED <<mutex, hmade, logVars, hdev, ldev, hclose, usbVars, omVars,
                 chanVars, img, oret, ostart, oafter>>

\* GetDimensions: the values it returns for the result of its scsiRead
GetDimensions(c) ==
  IF c.ret # NIL THEN [width |-> 0, height |-> 0, err |-> c.ret]
  ELSE IF Len(c.rdata) < 4
  THEN [width |-> 0, height |-> 0, err |-> "insufficient data received"]
  ELSE [width |-> c.rdata[1] + c.rdata[2] * 256,
        height |-> c.rdata[3] + c.rdata[4] * 256, err |-> NIL]

\* NewAX206USB: width, height, err := ax206.GetDimensions()  (the call)
NewAX206USB_GetDimensions(t) ==
  /\ pc[t] = "gd_call"
  /\ cmd' = ReadCmd("GetDimensions", DimReplyLen)
  /\ cmdlog' = <<>>
  /\ Call(t, "sr_env", "gd_ret")
  /\ UNCHANGED <<hVars, usbVars, oVars, omVars, chanVars, img, ack>>

\* NewAX206USB_Return with a failed dimension query treated like a failed
\* acquisition step: Close, return nil, error
NewAX206USB_Return_Abort(t) ==
  /\ pc[t] = "gd_ret"
  /\ LET d == GetDimensions(cmd) IN
       IF d.err # NIL
       THEN /\ AX206USB_Close
            /\ nxerr' = d.err
            /\ Goto(t, "tc_err")
       ELSE /\ usb' = [usb EXCEPT !.Width = d.width, !.Height = d.height]
            /\ nxerr' = NIL
            /\ Goto(t, "tc_bright")
            /\ UNCHANGED released
  /\ UNCHANGED <<stk, acquired, again, hVars, oVars, cmdVars,
                 omVars, chanVars, img>>

\* NewAX206USB: the fallback to the default dimensions, and return ax206, nil
NewAX206USB_Return(t) ==
  /\ pc[t] = "gd_ret"
  /\ LET d == GetDimensions(cmd) IN
       usb' = IF d.err # NIL
              THEN [usb EXCEPT !.Width = DefaultWidth, !.Height = DefaultHeight]
              ELSE [usb EXCEPT !.Width = d.width, !.Height = d.height]
  /\ nxerr' = NIL
  /\ Goto(t, "tc_bright")
  /\ UNCHANGED <<stk, acquired, released, again, hVars, oVars, cmdVars,
                 omVars, chanVars, img>>
\* ------------------------------------------------ AX206USBOutputHandler
NoConn == [acquired |-> FALSE, ack |-> NoAck]

\* NewAX206USBOutputHandler: handler := &AX206USBOutputHandler{};
\* handler.tryConnect(); the caller continues at retpc
NewAX206USBOutputHandler(t, retpc) ==
  /\ ~hmade
  /\ hmade' = TRUE
  /\ olog' = <<>>
  /\ Call(t, "tc_lock", retpc)
  /\ UNCHANGED <<mutex, logVars, hdev, ldev, conn, hclose, usbVars, cmdVars,
                 oret, ostart, oafter, omVars, chanVars, img>>

\* tryConnect: h.mutex.Lock(); close the existing device if any
tryConnect_Lock(t) ==
  /\ pc[t] = "tc_lock"
  /\ mutex = "free"
  /\ mutex' = t
  /\ IF hdev
     THEN AX206USB_Close /\ hdev' = FALSE
     ELSE UNCHANGED <<usb, released, hdev>>
  /\ conn' = NoConn
  /\ olog' = Append(olog, <<"call", "tryConnect">>)
  /\ Goto(t, "nx_ctx")
  /\ UNCHANGED <<stk, hmade, logVars, ldev, hclose, acquired, nxerr, again, cmdVars,
                 oret, ostart, oafter, omVars, chanVars, img>>

Min(a, b) == IF a <= b THEN a ELSE b

\* the time elapsed since an instant once d more seconds have passed; -1: the
\* instant has not happened yet
Later(e, d) == IF e = -1 THEN -1 ELSE Min(e + d, Far)

\* the log of warnings before the first connect attempt.  kind: what the
\* latest failed attempt logged; since: seconds since the latest warning;
\* gap: seconds between the two latest warnings
NoWarn == [kind |-> "none", since |-> -1, gap |-> -1]

\* the log of a run whose warnings are not observed
WarnOff == [NoWarn EXCEPT !.kind = "off"]

\* logWarnModule("ax206usb", ...) called by a failed connect attempt; kind is
\* "unavailable" (Device not available) or "test" (Device test failed)
LogWarn(kind) ==
  warn' = IF warn.kind = "off" THEN warn
          ELSE [kind |-> kind, since |-> 0, gap |-> warn.since]

\* a failed connect attempt that logs nothing
LogNothing ==
  warn' = IF warn.kind = "off" THEN warn ELSE [warn EXCEPT !.kind = "silent"]

\* time passes
Advance ==
  /\ lastError' = Later(lastError, TimeStep)
  /\ warn' = [warn EXCEPT !.since = Later(@, TimeStep)]
  /\ UNCHANGED <<pc, stk, mutex, hmade, hdev, ldev, conn, hclose, usbVars,
                 cmdVars, oVars, omVars, chanVars, img>>

\* tryConnect_Err without the deferred Unlock: the error return leaves the
\* mutex locked
tryConnect_Err_NoUnlock(t) ==
  /\ pc[t] = "tc_err"
  /\ IF lastError > Window
     THEN LogWarn("unavailable") /\ lastError' = 0
     ELSE LogNothing /\ UNCHANGED lastError
  /\ Return(t)
  /\ UNCHANGED <<mutex, hmade, hdev, ldev, conn, hclose, usbVars, cmdVars,
                 oVars, omVars, chanVars, img>>

\* tryConnect: NewAX206USB returned an error:
\* if time.Since(h.lastError) > 10*time.Second { logWarnModule(...);
\* h.lastError = time.Now() }; return (deferred Unlock)
tryConnect_Err(t) ==
  /\ pc[t] = "tc_err"
  /\ IF lastError > Window
     THEN LogWarn("unavailable") /\ lastError' = 0
     ELSE LogNothing /\ UNCHANGED lastError
  /\ mutex' = "free"
  /\ Return(t)
  /\ UNCHANGED <<hmade, hdev, ldev, conn, hclose, usbVars, cmdVars, oVars,
                 omVars, chanVars, img>>

\* tryConnect: device.Brightness(7)  (the call; Brightness passes data nil)
tryConnect_Brightness(t) ==
  /\ pc[t] = "tc_bright"
  /\ cmd' = WriteCmd("Brightness", FALSE, 0)
  /\ cmdlog' = <<>>
  /\ conn' = [conn EXCEPT !.acquired = TRUE]
  /\ Call(t, "sw_env", "tc_ret")
  /\ UNCHANGED <<mutex, hmade, logVars, hdev, ldev, hclose, usbVars, oVars, omVars,
                 chanVars, img, ack>>

\* tryConnect_Result with the test result ignored: the device is kept
\* whatever Brightness returned
tryConnect_Result_NoTest(t) ==
  /\ pc[t] = "tc_ret"
  /\ hdev' = TRUE
  /\ mutex' = "free"
  /\ Return(t)
  /\ UNCHANGED <<hmade, logVars, ldev, conn, hclose, usbVars, cmdVars, oVars, omVars,
                 chanVars, img>>

\* tryConnect: the test failed: logWarnModule("Device test failed");
\* device.Close(); return.  Otherwise h.device = device; return (deferred
\* Unlock)
tryConnect_Result(t) ==
  /\ pc[t] = "tc_ret"
  /\ IF cmd.ret # NIL
     THEN AX206USB_Close /\ LogWarn("test") /\ UNCHANGED hdev
     ELSE hdev' = TRUE /\ UNCHANGED <<usb, released, warn>>
  /\ mutex' = "free"
  /\ Return(t)
  /\ UNCHANGED <<hmade, lastError, ldev, conn, hclose, acquired, nxerr, again, cmdVars, oVars,
                 omVars, chanVars, img>>

\* Output: Lock; device := h.device; Unlock; if device == nil { tryConnect() }
Output_Get(t) ==
  /\ pc[t] = "out_get"
  /\ mutex = "free"
  /\ ldev' = [ldev EXCEPT ![t] = hdev]
  /\ olog' = <<>>
  /\ oret' = "pending"
  /\ ostart' = hdev
  /\ oafter' = "none"
  /\ IF hdev
     THEN Goto(t, "out_blit") /\ UNCHANGED stk
     ELSE Call(t, "tc_lock", "out_reget")
  /\ UNCHANGED <<mutex, hmade, logVars, hdev, conn, hclose, usbVars, cmdVars, omVars,
                 chanVars, img>>

\* Output_Reget with the error swallowed: a handler that is still
\* disconnected reports success
Output_Reget_Swallow(t) ==
  /\ pc[t] = "out_reget"
  /\ mutex = "free"
  /\ ldev' = [ldev EXCEPT ![t] = hdev]
  /\ oafter' = IF hdev THEN "dev" ELSE "nil"
  /\ IF hdev
     THEN Goto(t, "out_blit") /\ UNCHANGED <<stk, oret>>
     ELSE oret' = NIL /\ Return(t)
  /\ UNCHANGED <<mutex, hmade, logVars, hdev, conn, hclose, usbVars, cmdVars, olog,
                 ostart, omVars, chanVars, img>>

\* Output_Reget that returns after the reconnect: the frame of the call that
\* reconnected is not sent
Output_Reget_DropFrame(t) ==
  /\ pc[t] = "out_reget"
  /\ mutex = "free"
  /\ ldev' = [ldev EXCEPT ![t] = hdev]
  /\ oafter' = IF hdev THEN "dev" ELSE "nil"
  /\ oret' = IF hdev THEN NIL ELSE "device not available"
  /\ Return(t)
  /\ UNCHANGED <<mutex, hmade, logVars, hdev, conn, hclose, usbVars, cmdVars, olog,
                 ostart, omVars, chanVars, img>>

\* Output: after tryConnect: Lock; device = h.device; Unlock;
\* if device == nil { return "device not available" }
Output_Reget(t) ==
  /\ pc[t] = "out_reget"
  /\ mutex = "free"
  /\ ldev' = [ldev EXCEPT ![t] = hdev]
  /\ oafter' = IF hdev THEN "dev" ELSE "nil"
  /\ IF hdev
     THEN Goto(t, "out_blit") /\ UNCHANGED <<stk, oret>>
     ELSE oret' = "device not available" /\ Return(t)
  /\ UNCHANGED <<mutex, hmade, logVars, hdev, conn, hclose, usbVars, cmdVars, olog,
                 ostart, omVars, chanVars, img>>

\* the frame f as a source image
SrcFrame(f) ==
  [minX |-> 0, minY |-> 0, w |-> FrameW(f), h |-> FrameH(f),
   c |-> <<0, 0, 0>>]

\* Output: rgb565Img := NewRGB565Image(img), and Blit: img.PixRect(): the
\* payload of each frame
FramePayload == [f \in Frames |-> PixRect(NewRGB565Image(SrcFrame(f)))]

\* Output: rgb565Img := NewRGB565Image(img); device.Blit(rgb565Img)
\* (the call; Blit passes img.PixRect(), a non-nil buffer)
Output_Blit(t) ==
  /\ pc[t] = "out_blit"
  /\ cmd' = WriteCmd("Blit", TRUE, Len(FramePayload[img[t]]))
  /\ cmdlog' = <<>>
  /\ olog' = Append(olog, <<"call", "Blit">>)
  /\ Call(t, "sw_env", "out_ret")
  /\ UNCHANGED <<hVars, usbVars, oret, ostart, oafter, omVars, chanVars, img,
                 ack>>

\* Output_Result with the teardown forgotten: the error is returned but the
\* failed connection stays in h.device
Output_Result_NoTeardown(t) ==
  /\ pc[t] = "out_ret"
  /\ oret' = cmd.ret
  /\ Return(t)
  /\ UNCHANGED <<hVars, usbVars, cmdVars, olog, ostart, oafter, omVars,
                 chanVars, img>>

\* Output: Blit failed: Lock; close and forget h.device if any; Unlock;
\* return err.  Otherwise return nil
Output_Result(t) ==
  /\ pc[t] = "out_ret"
  /\ IF cmd.ret # NIL
     THEN /\ mutex = "free"
          /\ IF hdev
             THEN AX206USB_Close /\ hdev' = FALSE
             ELSE UNCHANGED <<usb, released, hdev>>
     ELSE UNCHANGED <<usb, released, hdev>>
  /\ oret' = cmd.ret
  /\ Return(t)
  /\ UNCHANGED <<mutex, hmade, logVars, ldev, conn, hclose, acquired, nxerr, again,
                 cmdVars, olog, ostart, oafter, omVars, chanVars, img>>

NoClose == [n |-> 0, first |-> FALSE, before |-> FALSE, ret |-> NIL]

\* AX206USBOutputHandler_Close that forgets h.device = nil
AX206USBOutputHandler_Close_KeepDevice(t) ==
  /\ pc[t] = "omc_loop"
  /\ omci <= Len(handlers)
  /\ handlers[omci] = "ax206usb"
  /\ mutex = "free"
  /\ IF hdev
     THEN AX206USB_Close
     ELSE UNCHANGED <<usb, released>>
  /\ hclose' = [n |-> IF hclose.n < 2 THEN hclose.n + 1 ELSE 2,
                first |-> IF hclose.n = 0 THEN hdev ELSE hclose.first,
                before |-> hdev, ret |-> NIL]
  /\ omci' = omci + 1
  /\ UNCHANGED <<pc, stk, mutex, hmade, logVars, hdev, ldev, conn, acquired, nxerr,
                 again, cmdVars, oVars, handlers, omi, lastErr, hasSuccess,
                 calls, omret, chanVars, img>>

\* AX206USBOutputHandler.Close, called by OutputManager.Close for the sink
\* at index omci
AX206USBOutputHandler_Close(t) ==
  /\ pc[t] = "omc_loop"
  /\ omci <= Len(handlers)
  /\ handlers[omci] = "ax206usb"
  /\ mutex = "free"
  /\ IF hdev
     THEN AX206USB_Close /\ hdev' = FALSE
     ELSE UNCHANGED <<usb, released, hdev>>
  /\ hclose' = [n |-> IF hclose.n < 2 THEN hclose.n + 1 ELSE 2,
                first |-> IF hclose.n = 0 THEN hdev ELSE hclose.first,
                before |-> hdev, ret |-> NIL]
  /\ omci' = omci + 1
  /\ UNCHANGED <<pc, stk, mutex, hmade, logVars, ldev, conn, acquired, nxerr, again, cmdVars,
                 oVars, handlers, omi, lastErr, hasSuccess, calls, omret,
                 chanVars, img>>
\* --------------------------------------------------------- OutputManager
\* the results a FileOutputHandler.Output may return
FileResults == {NIL, "failed to create file", "png encode failed"}

\* OutputResult with the success flag forgotten: the last error is returned
\* although a sink succeeded
OutputResult_AnyError(success, err) ==
  IF err # NIL THEN err ELSE NIL

\* OutputManager.Output: the value it returns after the loop
OutputResult(success, err) ==
  IF ~success /\ err # NIL THEN err ELSE NIL

\* the histories of the latest delivery start empty
ResetDelivery ==
  /\ cmd' = NoCmd
  /\ cmdlog' = <<>>
  /\ ack' = NoAck
  /\ olog' = <<>>
  /\ oret' = "none"
  /\ ostart' = FALSE
  /\ oafter' = "none"

\* the call om.Output(f) by goroutine t, which continues at retpc
OutputManager_Output(t, f, retpc) ==
  /\ ResetDelivery
  /\ img' = [img EXCEPT ![t] = f]
  /\ omi' = 1
  /\ lastErr' = NIL
  /\ hasSuccess' = FALSE
  /\ calls' = <<>>
  /\ omret' = "pending"
  /\ Call(t, "om_loop", retpc)

\* OutputManager_Output_Return with the loop left at the first failure
OutputManager_Output_Return_Break(t) ==
  /\ pc[t] = "om_loop"
  /\ omi > Len(handlers) \/ lastErr # NIL
  /\ omret' = OutputResult(hasSuccess, lastErr)
  /\ omi' = 1
  /\ lastErr' = NIL
  /\ hasSuccess' = FALSE
  /\ img' = [img EXCEPT ![t] = 0]
  /\ Return(t)
  /\ UNCHANGED <<hVars, usbVars, cmdVars, oVars, handlers, omci, calls,
                 chanVars>>

\* OutputManager.Output: the loop is over: return
OutputManager_Output_Return(t) ==
  /\ pc[t] = "om_loop"
  /\ omi > Len(handlers)
  /\ omret' = OutputResult(hasSuccess, lastErr)
  /\ omi' = 1
  /\ lastErr' = NIL
  /\ hasSuccess' = FALSE
  /\ img' = [img EXCEPT ![t] = 0]
  /\ Return(t)
  /\ UNCHANGED <<hVars, usbVars, cmdVars, oVars, handlers, omci, calls,
                 chanVars>>

\* OutputManager.Output: handler.Output(img) on the AX206USBOutputHandler
OutputManager_Output_CallUSB(t) ==
  /\ pc[t] = "om_loop"
  /\ omi <= Len(handlers)
  /\ handlers[omi] = "ax206usb"
  /\ Call(t, "out_get", "om_after")
  /\ UNCHANGED <<hVars, usbVars, cmdVars, oVars, omVars, chanVars, img>>

\* OutputManager.Output: the loop body once handler.Output returned r
OutputManager_Output_Body(r) ==
  /\ IF r # NIL
     THEN lastErr' = r /\ UNCHANGED hasSuccess
     ELSE hasSuccess' = TRUE /\ UNCHANGED lastErr
  /\ calls' = Append(calls, [sink |-> omi, ret |-> r])
  /\ omi' = omi + 1

\* OutputManager.Output: the AX206USBOutputHandler returned
OutputManager_Output_AfterUSB(t) ==
  /\ pc[t] = "om_after"
  /\ OutputManager_Output_Body(oret)
  /\ Goto(t, "om_loop")
  /\ UNCHANGED <<stk, hVars, usbVars, cmdVars, oVars, handlers, omci, omret,
                 chanVars, img>>

\* OutputManager.Output: handler.Output(img) on a FileOutputHandler
\* (os.Create and png.Encode are the environment)
FileOutputHandler_Output(t) ==
  /\ pc[t] = "om_loop"
  /\ omi <= Len(handlers)
  /\ handlers[omi] = "file"
  /\ \E r \in FileResults : OutputManager_Output_Body(r)
  /\ UNCHANGED <<pc, stk, hVars, usbVars, cmdVars, oVars, handlers, omci,
                 omret, chanVars, img>>

\* the call om.Close() by goroutine t, which continues at retpc
OutputManager_Close(t, retpc) ==
  /\ omci' = 1
  /\ Call(t, "omc_loop", retpc)

\* OutputManager.Close: the loop is over: return
OutputManager_Close_Return(t) ==
  /\ pc[t] = "omc_loop"
  /\ omci > Len(handlers)
  /\ omci' = 1
  /\ Return(t)
  /\ UNCHANGED <<hVars, usbVars, cmdVars, oVars, handlers, omi, lastErr,
                 hasSuccess, calls, omret, chanVars, img>>

\* FileOutputHandler.Close, called by OutputManager.Close: return nil
FileOutputHandler_Close(t) ==
  /\ pc[t] = "omc_loop"
  /\ omci <= Len(handlers)
  /\ handlers[omci] = "file"
  /\ omci' = omci + 1
  /\ UNCHANGED <<pc, stk, hVars, usbVars, cmdVars, oVars, handlers, omi,
                 lastErr, hasSuccess, calls, omret, chanVars, img>>

\* OutputManager.AddHandler
AddHandler(kind) == handlers' = Append(handlers, kind)

\* --------------------------------------------------------------- main
OutputModes == {"ax206usb", "file", "both", "other"}

needDevice == outputMode = "ax206usb" \/ outputMode = "both"

\* main: if needDevice { handler, err := NewAX206USBOutputHandler() ... }
Main_NewHandler ==
  /\ pc["main"] = "m_start"
  /\ IF needDevice
     THEN NewAX206USBOutputHandler("main", "m_addusb")
     ELSE /\ Goto("main", "m_file")
          /\ UNCHANGED <<stk, hVars, usbVars, cmdVars, oVars, omVars,
                         chanVars, img>>

\* main: err is always nil: outputManager.AddHandler(handler)
Main_AddUSB ==
  /\ pc["main"] = "m_addusb"
  /\ AddHandler("ax206usb")
  /\ Goto("main", "m_file")
  /\ UNCHANGED <<stk, hVars, usbVars, cmdVars, oVars, omi, lastErr,
                 hasSuccess, omci, calls, omret, chanVars, img>>

\* main: if outputMode == "file" || outputMode == "both" { AddHandler(file) };
\* outputChan := make(chan image.Image, 1); go func() {...}()
Main_AddFile ==
  /\ pc["main"] = "m_file"
  /\ IF outputMode = "file" \/ outputMode = "both"
     THEN AddHandler("file")
     ELSE UNCHANGED handlers
  /\ pc' = [pc EXCEPT !["main"] = "m_loop", !["cons"] = "recv"]
  /\ UNCHANGED <<stk, hVars, usbVars, cmdVars, oVars, omi, lastErr,
                 hasSuccess, omci, calls, omret, chanVars, img>>

\* the consumer goroutine is inside outputManager.Output
Delivering == pc["cons"] \notin {"c_idle", "recv", "c_exit", "c_killed"}

\* the push history after a push with the given outcome: n and drops count
\* the pushes and the dropped frames during the delivery in progress
Pushed(res) ==
  [before |-> Len(outputChan), res |-> res,
   n |-> IF Delivering THEN push.n + 1 ELSE push.n,
   drops |-> IF Delivering /\ res = "dropped" THEN push.drops + 1
             ELSE push.drops]

\* main: case <-ticker.C: registry.Update and renderManager.Render; an
\* error of either continues the loop without a frame (a stuttering step)
Main_Tick ==
  /\ pc["main"] = "m_loop"
  /\ Delivering => push.n < MaxPushes
  /\ \E f \in Frames :
       /\ img' = [img EXCEPT !["main"] = f]
       /\ Goto("main", "m_push")
  /\ UNCHANGED <<stk, hVars, usbVars, cmdVars, oVars, omVars, chanVars>>

\* Main_Push with a plain send outputChan <- img, which waits for room
Main_Push_Blocking ==
  /\ pc["main"] = "m_push"
  /\ Len(outputChan) < 1
  /\ outputChan' = Append(outputChan, img["main"])
  /\ push' = Pushed("queued")
  /\ img' = [img EXCEPT !["main"] = 0]
  /\ Goto("main", "m_loop")
  /\ UNCHANGED <<stk, hVars, usbVars, cmdVars, oVars, omVars, chanClosed,
                 outputMode, fn>>

\* Main_Push on a channel made with capacity 2
Main_Push_Capacity2 ==
  /\ pc["main"] = "m_push"
  /\ IF Len(outputChan) < 2
     THEN /\ outputChan' = Append(outputChan, img["main"])
          /\ push' = Pushed("queued")
     ELSE /\ UNCHANGED outputChan
          /\ push' = Pushed("dropped")
  /\ img' = [img EXCEPT !["main"] = 0]
  /\ Goto("main", "m_loop")
  /\ UNCHANGED <<stk, hVars, usbVars, cmdVars, oVars, omVars, chanClosed,
                 outputMode, fn>>

\* main: select { case outputChan <- img: default: skip the frame }
Main_Push ==
  /\ pc["main"] = "m_push"
  /\ IF Len(outputChan) < 1
     THEN /\ outputChan' = Append(outputChan, img["main"])
          /\ push' = Pushed("queued")
     ELSE /\ UNCHANGED outputChan
          /\ push' = Pushed("dropped")
  /\ img' = [img EXCEPT !["main"] = 0]
  /\ Goto("main", "m_loop")
  /\ UNCHANGED <<stk, hVars, usbVars, cmdVars, oVars, omVars, chanClosed,
                 outputMode, fn>>

\* main: case <-signalChan: close(outputChan); outputManager.Close()
Main_Signal ==
  /\ pc["main"] = "m_loop"
  /\ chanClosed' = TRUE
  /\ OutputManager_Close("main", "m_ret")
  /\ UNCHANGED <<hVars, usbVars, cmdVars, oVars, handlers, omi, lastErr,
                 hasSuccess, calls, omret, outputChan, outputMode, fn, push, img>>

\* main: return: the process exits, which ends the consumer goroutine
\* wherever it is
Main_Return ==
  /\ pc["main"] = "m_ret"
  /\ pc' = [pc EXCEPT !["main"] = "m_done", !["cons"] = "c_killed"]
  /\ UNCHANGED <<stk, hVars, usbVars, cmdVars, oVars, omVars, chanVars, img>>

\* consumer goroutine: for img := range outputChan { outputManager.Output(img) }
Consumer_Receive ==
  /\ pc["cons"] = "recv"
  /\ outputChan # <<>>
  /\ outputChan' = Tail(outputChan)
  /\ OutputManager_Output("cons", Head(outputChan), "recv")
  /\ push' = [push EXCEPT !.n = 0, !.drops = 0]
  /\ UNCHANGED <<hVars, usbVars, handlers, omci, chanClosed, outputMode, fn>>

\* consumer goroutine: the channel is closed and drained: the loop ends
Consumer_Exit ==
  /\ pc["cons"] = "recv"
  /\ outputChan = <<>>
  /\ chanClosed
  /\ Goto("cons", "c_exit")
  /\ UNCHANGED <<stk, hVars, usbVars, cmdVars, oVars, omVars, chanVars, img>>
\* ------------------------------------------------------ sequential client
\* a client constructs the handler
Client_New ==
  /\ pc["cons"] = "client"
  /\ NewAX206USBOutputHandler("cons", "client")

\* a client registers a sink: the handler once it exists, or another file sink
Client_AddHandler ==
  /\ pc["cons"] = "client"
  /\ Len(handlers) < MaxSinks
  /\ \E kind \in {"ax206usb", "file"} :
       /\ kind = "ax206usb" =>
            (hmade /\ \A i \in 1..Len(handlers) : handlers[i] # "ax206usb")
       /\ AddHandler(kind)
  /\ calls' = <<>>
  /\ omret' = "none"
  /\ UNCHANGED <<pc, stk, hVars, usbVars, cmdVars, oVars, omi, lastErr,
                 hasSuccess, omci, chanVars, img>>

\* a client delivers a frame
Client_Output ==
  /\ pc["cons"] = "client"
  /\ \E f \in Frames : OutputManager_Output("cons", f, "client")
  /\ hclose' = NoClose
  /\ UNCHANGED <<mutex, hmade, logVars, hdev, ldev, conn, usbVars, handlers, omci,
                 chanVars>>

\* a client closes the sinks
Client_Close ==
  /\ pc["cons"] = "client"
  /\ OutputManager_Close("cons", "client")
  /\ ResetDelivery
  /\ calls' = <<>>
  /\ omret' = "none"
  /\ UNCHANGED <<hVars, usbVars, handlers, omi, lastErr, hasSuccess,
                 chanVars, img>>

\* a client calls Close once more on a connection the handler does not hold
Client_CloseAgain ==
  /\ pc["cons"] = "client"
  /\ usb.exists
  /\ ~hdev
  /\ AX206USB_Close
  /\ again' = TRUE
  /\ UNCHANGED <<pc, stk, hVars, acquired, nxerr, cmdVars, oVars, omVars,
                 chanVars, img>>

\* ----------------------------------------------- pure functions, applied
fnRest == <<pc, stk, hVars, usbVars, cmdVars, oVars, omVars, img, outputChan,
            chanClosed, outputMode, push>>

\* AX206USB.Blit builds the command descriptor of a rectangle
Fn_Blit ==
  /\ fn.op = "Blit" /\ ~fn.done
  /\ fn' = [fn EXCEPT !.done = TRUE, !.cdb = Blit(Rect(fn.a))]
  /\ UNCHANGED fnRest

\* AX206USBOutputHandler.Output converts a frame and blits it:
\* NewRGB565Image(img); Blit: cmd, img.PixRect(); scsiWrite:
\* scsiCmdPrepare(cmd, len(data), true)
Fn_Output ==
  /\ fn.op = "Output" /\ ~fn.done
  /\ LET p == NewRGB565Image(Src(fn.a))
         c == Blit(p)
         data == PixRect(p)
     IN fn' = [fn EXCEPT !.done = TRUE, !.cdb = c, !.data = data,
                         !.hasData = TRUE,
                         !.env = scsiCmdPrepare(c, Len(data), TRUE)]
  /\ UNCHANGED fnRest

\* NewRGB565Image on a frame of one pixel: ImageRGB565.Set stores the pixel
Fn_Set ==
  /\ fn.op = "Set" /\ ~fn.done
  /\ LET src == [minX |-> 0, minY |-> 0, w |-> 1, h |-> 1, c |-> fn.a]
     IN fn' = [fn EXCEPT !.done = TRUE, !.val = rgb565Model(At(src, 0, 0)),
                         !.data = NewRGB565Image(src).Pix]
  /\ UNCHANGED fnRest

\* RGB565At, Set and SetRGB565 at (x, y) on a converted image: val is the
\* colour read, data the buffer after Set, env the buffer after SetRGB565
Fn_Pixel ==
  /\ fn.op = "Pixel" /\ ~fn.done
  /\ LET p == NewRGB565Image(Src(fn.a[1]))
         x == fn.a[2]
         y == fn.a[3]
         rd == RGB565At(p, x, y)
         st == Set(p, x, y, SetColour)
         sc == SetRGB565(p, x, y, SetC)
     IN fn' = [fn EXCEPT !.done = TRUE, !.val = rd.C, !.data = st.Pix,
                         !.env = sc.Pix,
                         !.panic = rd.panic \/ st.panic \/ sc.panic]
  /\ UNCHANGED fnRest

\* AX206USB.Brightness: cmd; scsiWrite(cmd, nil):
\* scsiCmdPrepare(cmd, len(nil), true)
Fn_Brightness ==
  /\ fn.op = "Brightness" /\ ~fn.done
  /\ LET c == Brightness(fn.a[1])
     IN fn' = [fn EXCEPT !.done = TRUE, !.cdb = c, !.hasData = FALSE,
                         !.env = scsiCmdPrepare(c, 0, TRUE)]
  /\ UNCHANGED fnRest

\* AX206USB.scsiCmdPrepare
Fn_scsiCmdPrepare ==
  /\ fn.op = "scsiCmdPrepare" /\ ~fn.done
  /\ fn' = [fn EXCEPT !.done = TRUE,
                      !.env = scsiCmdPrepare(fn.cdb, fn.a[1], fn.a[2])]
  /\ UNCHANGED fnRest

\* a client calls Output of the handler itself
Client_HandlerOutput ==
  /\ pc["cons"] = "client"
  /\ hmade
  /\ ResetDelivery
  /\ \E f \in Frames : img' = [img EXCEPT !["cons"] = f]
  /\ Call("cons", "out_get", "client")
  /\ UNCHANGED <<hVars, usbVars, omVars, chanVars>>

\* ------------------------------------------------------- specifications
InitCommon ==
  /\ stk = [t \in Threads |-> <<>>]
  /\ mutex = "free"
  /\ hmade = FALSE
  /\ hdev = FALSE
  /\ ldev = [t \in Threads |-> FALSE]
  /\ usb = NoObject
  /\ handlers = <<>>
  /\ omi = 1
  /\ lastErr = NIL
  /\ hasSuccess = FALSE
  /\ omci = 1
  /\ img = [t \in Threads |-> 0]
  /\ outputChan = <<>>
  /\ chanClosed = FALSE
  /\ acquired = <<>>
  /\ released = <<>>
  /\ nxerr = "none"
  /\ cmd = NoCmd
  /\ cmdlog = <<>>
  /\ ack = NoAck
  /\ olog = <<>>
  /\ oret = "none"
  /\ ostart = FALSE
  /\ oafter = "none"
  /\ conn = NoConn
  /\ calls = <<>>
  /\ omret = "none"
  /\ hclose = NoClose
  /\ push = [before |-> 0, res |-> "none", n |-> 0, drops |-> 0]
  /\ again = FALSE
  /\ lastError = Far

\* the operations of the connection and the handler, executed by goroutine t
StepHandler(t) ==
  \/ tryConnect_Lock(t)
  \/ NewAX206USB_Context(t)
  \/ NewAX206USB_OpenDevice(t)
  \/ NewAX206USB_Config(t)
  \/ NewAX206USB_Interface(t)
  \/ NewAX206USB_OutEndpoint(t)
  \/ NewAX206USB_InEndpoint(t)
  \/ NewAX206USB_GetDimensions(t)
  \/ NewAX206USB_Return(t)
  \/ tryConnect_Err(t)
  \/ tryConnect_Brightness(t)
  \/ tryConnect_Result(t)
  \/ scsiWrite_Command(t)
  \/ scsiWrite_Data(t)
  \/ scsiRead_Command(t)
  \/ scsiRead_Data(t)
  \/ scsiGetAck(t)
  \/ Output_Get(t)
  \/ Output_Reget(t)
  \/ Output_Blit(t)
  \/ Output_Result(t)

\* the operations of the connection, the handler and the manager, executed
\* by goroutine t
Step(t) ==
  \/ StepHandler(t)
  \/ OutputManager_Output_CallUSB(t)
  \/ OutputManager_Output_AfterUSB(t)
  \/ FileOutputHandler_Output(t)
  \/ OutputManager_Output_Return(t)
  \/ AX206USBOutputHandler_Close(t)
  \/ FileOutputHandler_Close(t)
  \/ OutputManager_Close_Return(t)

\* the operations of the connection, the handler and the manager on the
\* display sink, executed by goroutine t
StepCall(t) ==
  \/ StepHandler(t)
  \/ OutputManager_Output_CallUSB(t)
  \/ OutputManager_Output_AfterUSB(t)
  \/ OutputManager_Output_Return(t)
  \/ AX206USBOutputHandler_Close(t)
  \/ OutputManager_Close_Return(t)

\* the program: main goroutine and consumer goroutine
Init ==
  /\ InitCommon
  /\ fn = NoFn
  /\ warn = WarnOff
  /\ pc = [t \in Threads |-> IF t = "main" THEN "m_start" ELSE "c_idle"]
  /\ outputMode \in OutputModes

Next ==
  \/ Main_NewHandler
  \/ Main_AddUSB
  \/ Main_AddFile
  \/ Main_Tick
  \/ Main_Push
  \/ Main_Signal
  \/ Main_Return
  \/ Consumer_Receive
  \/ Consumer_Exit
  \/ \E t \in Threads : Step(t)

Spec == Init /\ [][Next]_vars

\* one client calling the operations one after the other, in any order
InitAPI ==
  /\ InitCommon
  /\ fn = NoFn
  /\ warn = WarnOff
  /\ pc = [t \in Threads |-> IF t = "main" THEN "m_idle" ELSE "client"]
  /\ outputMode = "other"

NextAPI ==
  \/ Client_New
  \/ Client_AddHandler
  \/ Client_Output
  \/ Client_Close
  \/ Client_CloseAgain
  \/ Step("cons")

SpecAPI == InitAPI /\ [][NextAPI]_vars

\* one client constructing the handler and calling its Output while time
\* passes; the warnings of the connect attempts are observed
InitLog ==
  /\ InitCommon
  /\ fn = NoFn
  /\ warn = NoWarn
  /\ pc = [t \in Threads |-> IF t = "main" THEN "m_idle" ELSE "client"]
  /\ outputMode = "other"

NextLog ==
  \/ Client_New
  \/ Client_HandlerOutput
  \/ Advance
  \/ StepHandler("cons")

SpecLog == InitLog /\ [][NextLog]_vars

\* the pure functions of the pixel codec and of the command framing, each
\* applied once to inputs drawn from bounded sets
InitFn ==
  /\ InitCommon
  /\ warn = WarnOff
  /\ pc = [t \in Threads |-> IF t = "main" THEN "m_idle" ELSE "fn"]
  /\ outputMode = "other"
  /\ fn \in FnInputs

NextFn ==
  \/ Fn_Blit
  \/ Fn_Output
  \/ Fn_Set
  \/ Fn_Pixel
  \/ Fn_Brightness
  \/ Fn_scsiCmdPrepare

SpecFn == InitFn /\ [][NextFn]_vars
\* the shutdown of the program under a fair scheduler.  It starts where the
\* display is the only sink, the connect attempt of the constructor failed at
\* the USB context or succeeded (after a dimension query whose envelope write
\* failed), and the render loop has queued its first frame; main
\* receives the signal at any moment.  A goroutine that can take a step of a
\* call (it is not waiting for the mutex) eventually takes one
InitFair ==
  /\ pc = [t \in Threads |-> IF t = "main" THEN "m_loop" ELSE "recv"]
  /\ stk = [t \in Threads |-> <<>>]
  /\ mutex = "free"
  /\ hmade = TRUE
  /\ hdev \in BOOLEAN
  /\ ldev = [t \in Threads |-> FALSE]
  /\ usb = IF hdev
           THEN [exists |-> TRUE, hasCtx |-> TRUE, hasDevice |-> TRUE,
                 hasConfig |-> TRUE, hasIntf |-> TRUE, outEndp |-> TRUE,
                 inEndp |-> TRUE, Width |-> DefaultWidth,
                 Height |-> DefaultHeight]
           ELSE NewObject
  /\ handlers = <<"ax206usb">>
  /\ omi = 1
  /\ lastErr = NIL
  /\ hasSuccess = FALSE
  /\ omci = 1
  /\ img = [t \in Threads |-> 0]
  /\ outputChan \in {<<f>> : f \in Frames}
  /\ chanClosed = FALSE
  /\ outputMode = "ax206usb"
  /\ lastError = IF hdev THEN Far ELSE 0
  /\ fn = NoFn
  /\ warn = WarnOff
  /\ acquired = IF hdev
                THEN <<"ctx", "device", "config", "intf", "outEndp", "inEndp">>
                ELSE <<>>
  /\ released = <<>>
  /\ nxerr = IF hdev THEN NIL ELSE "failed to create USB context"
  /\ ack = IF hdev
           THEN [got |-> TRUE, io |-> FALSE, n |-> StatusLen,
                 buf |-> AckBuf(StatusLen, USBS)]
           ELSE NoAck
  /\ cmd = IF hdev
           THEN [WriteCmd("Brightness", FALSE, 0) EXCEPT !.ret = NIL]
           ELSE NoCmd
  /\ cmdlog = IF hdev
              THEN <<[step |-> "env", ok |-> TRUE],
                     [step |-> "status", ok |-> TRUE]>>
              ELSE <<>>
  /\ olog = IF hdev
            THEN << <<"call", "tryConnect">>, <<"GetDimensions", "env">>,
                    <<"Brightness", "env">>, <<"Brightness", "status">> >>
            ELSE << <<"call", "tryConnect">> >>
  /\ oret = "none"
  /\ ostart = FALSE
  /\ oafter = "none"
  /\ conn = IF hdev THEN [acquired |-> TRUE, ack |-> ack] ELSE NoConn
  /\ calls = <<>>
  /\ omret = "none"
  /\ hclose = NoClose
  /\ push = [before |-> 0, res |-> "queued", n |-> 0, drops |-> 0]
  /\ again = FALSE

NextFair ==
  \/ Main_Signal
  \/ Main_Return
  \/ Consumer_Receive
  \/ Consumer_Exit
  \/ \E t \in Threads : StepCall(t)

SpecFair ==
  InitFair /\ [][NextFair]_vars /\ \A t \in Threads : WF_vars(StepCall(t))

\* ================================================================ claims
Count(s, e) == Cardinality({i \in 1..Len(s) : s[i] = e})

Last(s) == s[Len(s)]

AllResources == <<"ctx", "device", "config", "intf", "outEndp", "inEndp">>

FullRelease == <<"intf", "config", "device", "ctx">>

\* no resource of the connection object is held
Closed(u) == ~u.hasIntf /\ ~u.hasConfig /\ ~u.hasDevice /\ ~u.hasCtx

\* the latest scsi command is a Blit that ended with a failed step
BlitFailed ==
  /\ cmd.name = "Blit"
  /\ cmd.ret # "pending"
  /\ cmdlog # <<>>
  /\ ~Last(cmdlog).ok

\* the error of the step that ended the latest scsi command
StepError ==
  CASE Last(cmdlog).step = "env" -> "command write failed"
    [] Last(cmdlog).step = "payload" -> "data write failed"
    [] Last(cmdlog).step = "data" -> "data read failed"
    [] Last(cmdlog).step = "status" ->
         IF ack.io THEN "ACK read failed" ELSE "Got invalid reply"

\* the handler Output call of goroutine t has just returned
OutputReturned(t) == pc[t] = "om_after"

\* C1: when an Output call that began Connected returns after its Blit failed
\* at any step (envelope write, payload write, status read, invalid status),
\* the handler is Disconnected, the connection is closed, the error of the
\* failing step is returned, and the call made one Blit and no reconnect.
C1_FailedBlitTearsDown ==
  \A t \in Threads :
    (OutputReturned(t) /\ ostart /\ BlitFailed) =>
      /\ ~hdev
      /\ Closed(usb)
      /\ released = FullRelease
      /\ oret = StepError
      /\ Count(olog, <<"call", "Blit">>) = 1
      /\ Count(olog, <<"call", "tryConnect">>) = 0

C1_Witness ==
  /\ OutputReturned("cons")
  /\ ostart
  /\ BlitFailed
  /\ Last(cmdlog).step = "status"
  /\ oret = "Got invalid reply"

\* the events of an Output call that belong to the transfer of its frame
FrameEvents(log) == {i \in 1..Len(log) : log[i][2] = "Blit" \/ log[i][1] = "Blit"}

\* goroutine t is inside the Blit of its Output call
InBlit(t) ==
  /\ cmd.name = "Blit"
  /\ pc[t] \in {"sw_env", "sw_data", "ack", "out_ret"}

\* C2: an Output call that began Disconnected makes exactly one tryConnect,
\* as its first step; if the handler is still Disconnected when tryConnect
\* has returned, Output returns a non-nil error, performs no endpoint
\* transfer from then on (nothing of the frame is sent; the only transfers of
\* the call are those made inside the connect attempt) and leaves the handler
\* Disconnected; no call blits more than once, and what it blits is the frame
\* of that call, so no frame is retained for a later call.
C2_DisconnectedOutputDropsFrame ==
  \A t \in Threads :
    /\ Count(olog, <<"call", "tryConnect">>) <= 1
    /\ Count(olog, <<"call", "Blit">>) <= 1
    /\ (OutputReturned(t) /\ ~ostart) =>
         /\ Count(olog, <<"call", "tryConnect">>) = 1
         /\ olog[1] = <<"call", "tryConnect">>
         /\ oafter \in {"nil", "dev"}
    /\ (OutputReturned(t) /\ ~ostart /\ oafter = "nil") =>
         /\ oret \notin {NIL, "pending", "none"}
         /\ FrameEvents(olog) = {}
         /\ ~hdev
    /\ InBlit(t) => cmd.dataLen = FrameW(img[t]) * FrameH(img[t]) * 2

C2_Witness ==
  /\ OutputReturned("cons")
  /\ ~ostart
  /\ oafter = "nil"
  /\ oret = "device not available"
  /\ nxerr = "failed to open device"
  /\ hclose.n = 0

\* the sanity command of the latest connect attempt was acknowledged with a
\* valid status block
SanityAcked ==
  /\ conn.ack.got
  /\ ~conn.ack.io
  /\ conn.ack.n >= 4
  /\ SubSeq(conn.ack.buf, 1, 4) = USBS

\* C3: the handler holds a device only if the latest connect attempt acquired
\* every USB resource and its Brightness command was acknowledged with a valid
\* status block; once a connect attempt whose sanity command failed is over,
\* the handler is Disconnected and the new connection is closed.
C3_ConnectedOnlyAfterSanity ==
  /\ hdev => /\ conn.acquired
             /\ acquired = AllResources
             /\ nxerr = NIL
             /\ SanityAcked
  /\ (mutex = "free" /\ conn.acquired /\ ~SanityAcked) =>
       /\ ~hdev
       /\ Closed(usb)
       /\ released = FullRelease

C3_Witness ==
  /\ mutex = "free"
  /\ conn.acquired
  /\ conn.ack.got
  /\ ~SanityAcked
  /\ ~hdev
  /\ Closed(usb)
\* the latest OutputManager.Output call has returned
OMReturned == omret \notin {"none", "pending"}

\* C4: OutputManager.Output returns nil if at least one sink's Output
\* succeeded; if sinks were invoked and all of them failed it returns the
\* non-nil error of the last sink invoked.  (With no sink registered the loop
\* body never runs and the call returns nil.)
C4_AggregateResult ==
  OMReturned =>
    /\ (\E i \in 1..Len(calls) : calls[i].ret = NIL) => omret = NIL
    /\ (calls # <<>> /\ \A i \in 1..Len(calls) : calls[i].ret # NIL) =>
         (omret # NIL /\ omret = Last(calls).ret)

C4_Witness ==
  /\ OMReturned
  /\ Len(calls) = 2
  /\ handlers[1] = "ax206usb"
  /\ calls[1].ret = "data write failed"
  /\ calls[2].ret = "png encode failed"
  /\ omret = "png encode failed"

\* C5: every OutputManager.Output call invokes the sinks one by one in list
\* order, each exactly once, whatever the earlier sinks returned: the k-th
\* invocation is that of sink k, and at the return every sink was invoked.
C5_EverySinkInvokedInOrder ==
  /\ \A i \in 1..Len(calls) : calls[i].sink = i
  /\ omret = "pending" => Len(calls) = omi - 1
  /\ OMReturned => Len(calls) = Len(handlers)

C5_Witness ==
  /\ OMReturned
  /\ Len(handlers) = 3
  /\ Len(calls) = 3
  /\ handlers[2] = "ax206usb"
  /\ calls[1].ret # NIL
  /\ calls[2].ret # NIL
  /\ calls[3].ret = NIL

\* the status block of the latest status read
AckValid ==
  /\ ack.got
  /\ ~ack.io
  /\ ack.n >= 4
  /\ SubSeq(ack.buf, 1, 4) = USBS

\* the latest scsi command ended with its status read
StatusRead == cmdlog # <<>> /\ Last(cmdlog).step = "status"

\* C6: scsiWrite and scsiRead return nil only if their status read returned
\* without I/O error, delivered at least 4 bytes and the first 4 bytes are
\* "USBS"; after any other status outcome they return a non-nil error.
C6_StatusSignatureRequired ==
  cmd.op \in {"scsiWrite", "scsiRead"} =>
    /\ cmd.ret = NIL => (StatusRead /\ AckValid)
    /\ (StatusRead /\ ~AckValid) => cmd.ret \notin {NIL, "pending"}

C6_Witness ==
  /\ cmd.op = "scsiRead"
  /\ StatusRead
  /\ ~ack.io
  /\ ack.n = StatusLen
  /\ ack.buf = Zeros(StatusLen)
  /\ cmd.ret = "Got invalid reply"

StepsOf(log) == [i \in 1..Len(log) |-> log[i].step]

IsPrefix(a, b) == Len(a) <= Len(b) /\ a = SubSeq(b, 1, Len(a))

\* C7: the endpoint operations of a scsiWrite are a prefix of envelope write,
\* payload write, status read (envelope write, status read when data is nil),
\* so each happens at most once and in that order; only the last operation
\* performed can have failed, and a failed operation ends the command with an
\* error.
C7_WriteStepsInOrderNoRetry ==
  cmd.op = "scsiWrite" =>
    /\ \/ IsPrefix(StepsOf(cmdlog), <<"env", "payload", "status">>)
       \/ ~cmd.hasData /\ IsPrefix(StepsOf(cmdlog), <<"env", "status">>)
    /\ \A i \in 1..(Len(cmdlog) - 1) : cmdlog[i].ok
    /\ (cmdlog # <<>> /\ ~Last(cmdlog).ok) => cmd.ret \notin {NIL, "pending"}
    /\ cmd.ret # "pending" =>
         /\ cmdlog # <<>>
         /\ Last(cmdlog).ok => (Last(cmdlog).step = "status" /\ cmd.ret = NIL)

C7_Witness ==
  /\ cmd.op = "scsiWrite"
  /\ cmd.name = "Blit"
  /\ StepsOf(cmdlog) = <<"env", "payload">>
  /\ ~Last(cmdlog).ok
  /\ cmd.ret = "data write failed"

Reverse(s) == [i \in 1..Len(s) |-> s[Len(s) + 1 - i]]

IsClosable(r) == r \in {"ctx", "device", "config", "intf"}

\* the resources Close has to release after the failure of a step
ExpectedRelease(e) ==
  CASE e \in {"failed to open device", "device is nil"} -> <<"ctx">>
    [] e \in {"failed to get config", "config is nil"} -> <<"device", "ctx">>
    [] e \in {"failed to get interface", "interface is nil"} ->
         <<"config", "device", "ctx">>
    [] e \in {"failed to get out endpoint", "failed to get in endpoint"} ->
         FullRelease

\* the latest NewAX206USB failed at a step that calls Close
NxFailed ==
  nxerr \in {"failed to open device", "device is nil", "failed to get config",
             "config is nil", "failed to get interface", "interface is nil",
             "failed to get out endpoint", "failed to get in endpoint"}

\* C8: after NewAX206USB failed at device open, config, interface, out
\* endpoint or in endpoint, the resources released on the connection are
\* exactly those acquired before the failing step, each once, in reverse
\* acquisition order, and a further Close on it releases nothing more.
C8_PartialTeardown ==
  NxFailed =>
    /\ released = ExpectedRelease(nxerr)
    /\ released = Reverse(SelectSeq(acquired, IsClosable))
    /\ Closed(usb)

C8_Witness ==
  /\ nxerr = "failed to get interface"
  /\ acquired = <<"ctx", "device", "config">>
  /\ released = <<"config", "device", "ctx">>
  /\ again

\* C9: every AX206USBOutputHandler.Close leaves the handler Disconnected and
\* returns nil; on a handler that is already Disconnected it changes neither
\* the handler nor the connection and releases nothing.
C9_CloseIdempotent ==
  [][\A t \in Threads :
       AX206USBOutputHandler_Close(t) =>
         /\ hdev' = FALSE
         /\ hclose'.ret = NIL
         /\ mutex' = "free"
         /\ ~hdev => (usb' = usb /\ released' = released)]_vars

C9_Witness ==
  /\ hclose.n = 2
  /\ hclose.first
  /\ ~hclose.before
  /\ released = FullRelease
  /\ ~hdev

\* C10: the push of the render loop is always enabled (it never waits): it
\* enqueues the frame if the channel is empty and drops it if the channel
\* holds a frame, so the channel never holds more than one frame besides the
\* one the consumer is delivering.
C10_PushNeverBlocks ==
  /\ Len(outputChan) <= 1
  /\ pc["main"] = "m_push" => ENABLED Main_Push
  /\ push.res = "queued" => push.before = 0
  /\ push.res = "dropped" => push.before = 1

C10_Witness ==
  /\ push.res = "dropped"
  /\ Len(outputChan) = 1
  /\ pc["cons"] = "sw_data"
  /\ pc["main"] = "m_loop"
\* the elements of a sequence
Range(s) == {s[i] : i \in 1..Len(s)}

\* goroutine u is inside AX206USBOutputHandler.Output: the call was made by
\* OutputManager.Output and has not returned to it
UsbOutputInProgress(u) == "om_after" \in Range(stk[u])

\* C11: at shutdown OutputManager.Close runs only after the consumer
\* goroutine finished its in-flight OutputManager.Output: no Close of the
\* display sink executes while an Output call on that sink is in progress.
\* (The formula is the last clause, which the rest of the claim implies.)
C11_NoCloseDuringOutput ==
  [][\A t \in Threads :
       AX206USBOutputHandler_Close(t) =>
         \A u \in Threads : ~UsbOutputInProgress(u)]_vars

\* goroutine t is at an endpoint transfer (envelope write, payload write,
\* data read, status read)
AtTransfer(t) == pc[t] \in {"sw_env", "sw_data", "sr_env", "sr_data", "ack"}

\* C12: every endpoint transfer on the handler's connection (the Blit of
\* Output, the dimension query and the sanity command of tryConnect) is
\* performed by a goroutine that holds the handler's mutex.
C12_TransfersUnderMutex ==
  \A t \in Threads : AtTransfer(t) => mutex = t
\* the latest connect attempt is over and failed: in resource acquisition, or
\* in the sanity command
ConnectFailed ==
  /\ mutex = "free"
  /\ \/ nxerr \notin {"none", "pending", NIL}
     \/ conn.acquired /\ ~SanityAcked

\* C13: every failed connect attempt (in resource acquisition or in the
\* sanity command) leaves the handler Disconnected, and any two connect-failure
\* warnings of the handler are more than 10 seconds apart: at most one warning
\* in any 10-second window.
C13_WarningsRateLimited ==
  /\ ConnectFailed => ~hdev
  /\ warn.gap # -1 => warn.gap > Window
\* the latest delivery of the consumer goroutine is over
Delivered == pc["cons"] = "recv" /\ omret \notin {"none", "pending"}

\* C14 as stated: a delivery that outlasts a tick interval (the render loop
\* pushed at least once while it was in progress) drops exactly one frame at
\* the channel-full path.
C14_ExactlyOneDropped ==
  (Delivered /\ push.n >= 1) => push.drops = 1

\* C14 as amended: the first frame pushed during a delivery is queued and
\* every later frame pushed during that delivery is dropped, so a delivery
\* that spans n >= 1 pushes drops n - 1 frames (none when n = 1); the push is
\* always enabled.
C14_AllButFirstDropped ==
  /\ push.n >= 1 => push.drops = push.n - 1
  /\ push.n = 0 => push.drops = 0
  /\ (Delivering /\ push.n >= 1) => Len(outputChan) = 1
  /\ pc["main"] = "m_push" => ENABLED Main_Push

C14_Witness ==
  /\ Delivered
  /\ push.n = 2
  /\ push.drops = 1
  /\ push.res = "dropped"
\* C15: when the envelope write and the data read of a scsiRead succeeded and
\* its status check failed, scsiRead returns the bytes it read together with
\* the non-nil error; when the envelope write or the data read failed it
\* returns nil data and performs no status read.
C15_ReadReturnsDataWithStatusError ==
  (cmd.op = "scsiRead" /\ cmd.ret # "pending") =>
    /\ cmdlog # <<>>
    /\ (Last(cmdlog).step = "status" /\ cmd.ret # NIL) =>
         /\ StepsOf(cmdlog) = <<"env", "data", "status">>
         /\ cmdlog[1].ok /\ cmdlog[2].ok
         /\ ~cmd.rnil
         /\ cmd.rdata = cmd.data
         /\ Len(cmd.rdata) \in DimLens
    /\ Last(cmdlog).step \in {"env", "data"} =>
         /\ ~Last(cmdlog).ok
         /\ cmd.ret \in {"command write failed", "data read failed"}
         /\ cmd.rnil
         /\ cmd.rdata = <<>>
         /\ "status" \notin Range(StepsOf(cmdlog))

C15_Witness ==
  /\ cmd.op = "scsiRead"
  /\ cmd.ret = "Got invalid reply"
  /\ StepsOf(cmdlog) = <<"env", "data", "status">>
  /\ ~cmd.rnil
  /\ Len(cmd.rdata) = DimReplyLen
\* the 16-bit and 32-bit little-endian fields that start at byte i (1-based)
LE16(b, i) == b[i] + 256 * b[i + 1]

LE32(b, i) == b[i] + 256 * b[i + 1] + 65536 * b[i + 2] + 16777216 * b[i + 3]

IsBytes(b) == \A i \in 1..Len(b) : b[i] \in 0..255

\* C16: for every rectangle [x0,y0,x1,y1) given to Blit, the descriptor has
\* 16 bytes, the blit sub-opcode at byte 6, and after it four little-endian
\* 16-bit fields: x0, y0, x1-1 and y1-1 (as 16-bit values: -1 of an empty
\* rectangle is 0xFFFF); for [0,0,480,320) the end corner is (479, 319).
C16_BlitRectEncoding ==
  (fn.op = "Blit" /\ fn.done) =>
    /\ Len(fn.cdb) = 16
    /\ IsBytes(fn.cdb)
    /\ SubSeq(fn.cdb, 1, 7) = <<205, 0, 0, 0, 0, 6, 18>>
    /\ LE16(fn.cdb, 8) = fn.a[1]
    /\ LE16(fn.cdb, 10) = fn.a[2]
    /\ LE16(fn.cdb, 12) = (fn.a[3] - 1) % 65536
    /\ LE16(fn.cdb, 14) = (fn.a[4] - 1) % 65536
    /\ fn.cdb[16] = 0
    /\ (fn.a[3] >= 1 /\ fn.a[4] >= 1) =>
         (LE16(fn.cdb, 12) = fn.a[3] - 1 /\ LE16(fn.cdb, 14) = fn.a[4] - 1)
    /\ fn.a = <<0, 0, 480, 320>> =>
         (LE16(fn.cdb, 12) = 479 /\ LE16(fn.cdb, 14) = 319)

C16_Witness ==
  /\ fn.op = "Blit"
  /\ fn.done
  /\ fn.a = <<0, 0, 480, 320>>
  /\ SubSeq(fn.cdb, 12, 15) = <<223, 1, 63, 1>>

\* C17: for every W x H source frame, whatever the origin of its bounds,
\* NewRGB565Image followed by PixRect yields W*H*2 bytes, and in the Blit of
\* that frame the payload length, the length field of the envelope and
\* (x1-x0)*(y1-y0)*2 of the rectangle in the descriptor (16-bit fields, the
\* end corner inclusive) are equal.
C17_PayloadLengthsAgree ==
  (fn.op = "Output" /\ fn.done) =>
    LET W == fn.a[3]
        H == fn.a[4]
        x0 == LE16(fn.cdb, 8)
        y0 == LE16(fn.cdb, 10)
        x1 == (LE16(fn.cdb, 12) + 1) % 65536
        y1 == (LE16(fn.cdb, 14) + 1) % 65536
    IN /\ Len(fn.data) = W * H * 2
       /\ IsBytes(fn.data)
       /\ fn.hasData
       /\ LE32(fn.env, 9) = Len(fn.data)
       /\ (x1 - x0) * (y1 - y0) * 2 = Len(fn.data)
       /\ x0 = 0 /\ y0 = 0 /\ x1 = W /\ y1 = H

C17_Witness ==
  /\ fn.op = "Output"
  /\ fn.done
  /\ fn.a[1] = -1
  /\ fn.a[2] = 3
  /\ fn.a[3] = 2
  /\ fn.a[4] = 1
  /\ Len(fn.data) = 4
  /\ SubSeq(fn.env, 9, 12) = <<4, 0, 0, 0>>

\* C18: an opaque source pixel with 8-bit channels (R,G,B) is encoded as
\* ((R>>3)<<11) | ((G>>2)<<5) | (B>>3), stored high byte first; so (255,0,0)
\* gives 0xF800, (0,255,0) 0x07E0, (0,0,255) 0x001F, white 0xFFFF and black
\* 0x0000.
C18_RGB565Packing ==
  (fn.op = "Set" /\ fn.done) =>
    LET R == fn.a[1]
        G == fn.a[2]
        B == fn.a[3]
        v == (R \div 8) * 2048 + (G \div 4) * 32 + (B \div 8)
    IN /\ fn.val = v
       /\ fn.data = <<v \div 256, v % 256>>
       /\ fn.a = <<255, 0, 0>> => fn.data = <<248, 0>>
       /\ fn.a = <<0, 255, 0>> => fn.data = <<7, 224>>
       /\ fn.a = <<0, 0, 255>> => fn.data = <<0, 31>>
       /\ fn.a = <<255, 255, 255>> => fn.data = <<255, 255>>
       /\ fn.a = <<0, 0, 0>> => fn.data = <<0, 0>>

C18_Witness ==
  /\ fn.op = "Set"
  /\ fn.done
  /\ fn.a = <<0, 255, 0>>
  /\ fn.val = 2016
  /\ fn.data = <<7, 224>>

\* C19: for every integer b, Brightness(b) emits the command of property 1
\* with the level min(7, max(0, b)) as a little-endian 16-bit field and no
\* data payload (envelope length 0); Brightness(-3) emits level 0 and
\* Brightness(42) level 7.
C19_BrightnessClamped ==
  (fn.op = "Brightness" /\ fn.done) =>
    LET b == fn.a[1]
        l == IF b < 0 THEN 0 ELSE IF b > 7 THEN 7 ELSE b
    IN /\ fn.cdb = <<205, 0, 0, 0, 0, 6, 1, 1, 0, l, 0, 0, 0, 0, 0, 0>>
       /\ LE16(fn.cdb, 10) = l
       /\ ~fn.hasData
       /\ LE32(fn.env, 9) = 0
       /\ fn.env[13] = 0
       /\ SubSeq(fn.env, 16, 31) = fn.cdb
       /\ b = -3 => LE16(fn.cdb, 10) = 0
       /\ b = 42 => LE16(fn.cdb, 10) = 7

C19_Witness ==
  /\ fn.op = "Brightness"
  /\ fn.done
  /\ fn.a = <<42>>
  /\ LE16(fn.cdb, 10) = 7

\* C20: for every 16-byte command descriptor and every payload length,
\* scsiCmdPrepare returns 31 bytes: the signature "USBC" at [0:4], the tag at
\* [4:8], the payload length little-endian at [8:12], the direction flag at
\* [12] (0x00 for scsiWrite, 0x80 for scsiRead), LUN 0 at [13], the descriptor
\* length at [14] and the descriptor at [15:31].
C20_EnvelopeLayout ==
  (fn.op = "scsiCmdPrepare" /\ fn.done) =>
    /\ Len(fn.env) = 31
    /\ IsBytes(fn.env)
    /\ SubSeq(fn.env, 1, 4) = <<85, 83, 66, 67>>
    /\ SubSeq(fn.env, 5, 8) = <<222, 173, 190, 239>>
    /\ LE32(fn.env, 9) = fn.a[1]
    /\ fn.env[13] = (IF fn.a[2] THEN 0 ELSE 128)
    /\ fn.env[14] = 0
    /\ fn.env[15] = Len(fn.cdb)
    /\ fn.env[15] = 16
    /\ SubSeq(fn.env, 16, 31) = fn.cdb

C20_Witness ==
  /\ fn.op = "scsiCmdPrepare"
  /\ fn.done
  /\ fn.a = <<307200, TRUE>>
  /\ fn.cdb = Blit(Rect(<<0, 0, 480, 320>>))
  /\ SubSeq(fn.env, 9, 13) = <<0, 176, 4, 0, 0>>
\* the dimension query of the latest NewAX206USB has returned and NewAX206USB
\* has acted on its result
DimQueryDone ==
  /\ cmd.name = "GetDimensions"
  /\ cmd.ret # "pending"
  /\ \A t \in Threads : pc[t] # "gd_ret"

\* the dimension query failed: a transfer failed, the status block was
\* invalid, or the reply has fewer than 4 bytes
DimQueryFailed ==
  \/ Last(cmdlog).step \in {"env", "data"}
  \/ ~AckValid
  \/ Len(cmd.data) < 4

\* every resource of the connection object is held
AllHeld(u) ==
  /\ u.hasCtx /\ u.hasDevice /\ u.hasConfig /\ u.hasIntf
  /\ u.outEndp /\ u.inEndp

\* C21: once every USB resource is acquired, NewAX206USB returns the
\* connection with no error and nothing released whatever the dimension query
\* did: Width = 480 and Height = 320 when the query failed (transfer error,
\* invalid status, reply shorter than 4 bytes), the two little-endian 16-bit
\* fields of the reply when it succeeded.
C21_DimensionFallback ==
  DimQueryDone =>
    /\ nxerr = NIL
    /\ released = <<>>
    /\ acquired = AllResources
    /\ AllHeld(usb)
    /\ IF DimQueryFailed
       THEN usb.Width = DefaultWidth /\ usb.Height = DefaultHeight
       ELSE usb.Width = LE16(cmd.data, 1) /\ usb.Height = LE16(cmd.data, 3)

C21_Witness ==
  /\ DimQueryDone
  /\ AckValid
  /\ Len(cmd.data) = 3
  /\ usb.Width = 480
  /\ usb.Height = 320
  /\ AllHeld(usb)
\* goroutine t issues an endpoint transfer: envelope write, payload write,
\* data read or status read
IssuesTransfer(t) ==
  \/ scsiWrite_Command(t)
  \/ scsiWrite_Data(t)
  \/ scsiRead_Command(t)
  \/ scsiRead_Data(t)
  \/ scsiGetAck(t)

\* C22: in every interleaving of the consumer's Output with the shutdown
\* Close of main, no endpoint transfer is issued on a connection whose
\* resources Close has released.
C22_NoTransferOnReleasedConnection ==
  [][\A t \in Threads :
       IssuesTransfer(t) => ~(Closed(usb) /\ released # <<>>)]_vars
\* no call is in progress on any goroutine
NoCallInProgress == \A t \in Threads : stk[t] = <<>>

\* C23: no resource of a connection is released twice, and whenever the
\* handler is Disconnected with no call in progress, every closable resource
\* the latest connection acquired has been released (in reverse order) and
\* the connection holds nothing: after a failed connect, a failed sanity
\* command and a failed Blit alike.
C23_NoLeakNoDoubleRelease ==
  /\ \A i, j \in 1..Len(released) : released[i] = released[j] => i = j
  /\ Range(released) \subseteq Range(acquired)
  /\ (~hdev /\ NoCallInProgress) =>
       /\ Closed(usb)
       /\ released = Reverse(SelectSeq(acquired, IsClosable))

C23_Witness ==
  /\ ~hdev
  /\ NoCallInProgress
  /\ BlitFailed
  /\ oret = "data write failed"
  /\ acquired = AllResources
  /\ released = FullRelease
  /\ again
\* the errors NewAX206USB returns for a failure of its k-th acquisition step
NxErrors(k) ==
  CASE k = 1 -> {"failed to create USB context"}
    [] k = 2 -> {"failed to open device", "device is nil"}
    [] k = 3 -> {"failed to get config", "config is nil"}
    [] k = 4 -> {"failed to get interface", "interface is nil"}
    [] k = 5 -> {"failed to get out endpoint"}
    [] k = 6 -> {"failed to get in endpoint"}

\* the position of NewAX206USB before its k-th acquisition step (k = 7: all
\* steps done)
NxPcs == <<"nx_ctx", "nx_open", "nx_config", "nx_intf", "nx_out", "nx_in",
           "gd_call">>

\* the k-th acquisition step of NewAX206USB, executed by goroutine t
NxStep(k, t) ==
  CASE k = 1 -> NewAX206USB_Context(t)
    [] k = 2 -> NewAX206USB_OpenDevice(t)
    [] k = 3 -> NewAX206USB_Config(t)
    [] k = 4 -> NewAX206USB_Interface(t)
    [] k = 5 -> NewAX206USB_OutEndpoint(t)
    [] k = 6 -> NewAX206USB_InEndpoint(t)

\* C24: the k-th acquisition step of NewAX206USB runs only when exactly the
\* k-1 earlier resources have been acquired, in the order context, device,
\* configuration, interface, output endpoint, input endpoint, and no step has
\* failed; it either acquires the k-th resource and moves to the next step,
\* or ends construction with an error of that step (so no step runs twice);
\* an endpoint transfer is issued only when all six are acquired.
C24_StrictAcquisitionOrder ==
  [][\A t \in Threads :
       /\ \A k \in 1..6 :
            NxStep(k, t) =>
              /\ k > 1 => (acquired = SubSeq(AllResources, 1, k - 1)
                           /\ nxerr = "pending")
              /\ \/ /\ acquired' = SubSeq(AllResources, 1, k)
                    /\ nxerr' = "pending"
                    /\ pc'[t] = NxPcs[k + 1]
                 \/ /\ acquired' = SubSeq(AllResources, 1, k - 1)
                    /\ nxerr' \in NxErrors(k)
                    /\ pc'[t] = "tc_err"
       /\ IssuesTransfer(t) =>
            (acquired = AllResources /\ usb.outEndp /\ usb.inEndp)]_vars

C24_Witness ==
  /\ nxerr = "failed to get in endpoint"
  /\ acquired = <<"ctx", "device", "config", "intf", "outEndp">>
  /\ released = FullRelease
  /\ cmd.name # "GetDimensions"
  /\ pc["cons"] = "tc_err"
\* C25: scsiWrite issues a payload write if and only if the payload has at
\* least one byte: with an empty payload (the 0 x 0 frame of Blit, the absent
\* payload of Brightness) the status read follows the envelope write
\* directly.
C25_PayloadWriteIffNonEmpty ==
  cmd.op = "scsiWrite" =>
    /\ "payload" \in Range(StepsOf(cmdlog)) => cmd.dataLen > 0
    /\ (cmd.dataLen > 0 /\ "status" \in Range(StepsOf(cmdlog))) =>
         "payload" \in Range(StepsOf(cmdlog))
    /\ (cmd.dataLen = 0 /\ Len(cmdlog) >= 2) => cmdlog[2].step = "status"
\* C26 as stated: data that scsiRead returns without error has exactly
\* expectedLength bytes.
C26_ReadReturnsExpectedLength ==
  (cmd.op = "scsiRead" /\ cmd.ret = NIL) => Len(cmd.rdata) = cmd.blockLen

\* C26 as amended: scsiRead makes one read into a buffer of expectedLength
\* bytes, between the envelope write and the status read, and what it
\* returns without error is the n bytes that read delivered: at most
\* expectedLength bytes, possibly fewer.
C26_ReadReturnsBytesRead ==
  (cmd.op = "scsiRead" /\ cmd.ret = NIL) =>
    /\ StepsOf(cmdlog) = <<"env", "data", "status">>
    /\ ~cmd.rnil
    /\ cmd.rdata = cmd.data
    /\ Len(cmd.rdata) <= cmd.blockLen

C26_Witness ==
  /\ cmd.op = "scsiRead"
  /\ cmd.ret = NIL
  /\ cmd.blockLen = DimReplyLen
  /\ Len(cmd.rdata) = 3
  /\ ~cmd.rnil
\* goroutine t is about to execute h.mutex.Lock(): in tryConnect, at one of
\* the three of Output, or in Close
AtLock(t) ==
  \/ pc[t] \in {"tc_lock", "out_get", "out_reget"}
  \/ pc[t] = "out_ret" /\ cmd.ret # NIL
  \/ pc[t] = "omc_loop" /\ omci <= Len(handlers) /\ handlers[omci] = "ax206usb"

\* goroutine t is inside tryConnect, between its Lock and its deferred Unlock
InTryConnect(t) ==
  \/ pc[t] \in {"nx_ctx", "nx_open", "nx_config", "nx_intf", "nx_out",
                "nx_in", "gd_call", "gd_ret", "tc_bright", "tc_err", "tc_ret"}
  \/ Range(stk[t]) \cap {"gd_ret", "tc_ret"} # {}

\* C27: a goroutine never reaches a Lock of the handler's mutex while holding
\* it, the mutex is held only inside tryConnect (every return of tryConnect,
\* Output and Close leaves it released; a process exit may end the consumer
\* inside tryConnect), and under a fair scheduler, with
\* every USB call returning, every Output call of the consumer ends (it
\* returns, or the process exits) and the Close call of the shutdown path
\* returns.
C27_NoDeadlock ==
  /\ [](\A t \in Threads : AtLock(t) => mutex # t)
  /\ [](\A t \in Threads :
         mutex = t => (InTryConnect(t) \/ pc[t] = "c_killed"))
  /\ \A t \in Threads :
       UsbOutputInProgress(t) ~>
         (~UsbOutputInProgress(t) \/ pc[t] = "c_killed")
  /\ (pc["main"] = "omc_loop") ~> (pc["main"] = "m_ret")

C27_Witness ==
  /\ pc["main"] = "omc_loop"
  /\ AtLock("main")
  /\ mutex = "cons"
  /\ pc["cons"] = "tc_err"
  /\ UsbOutputInProgress("cons")
\* the shutdown path has closed the frame channel and its OutputManager.Close
\* has returned
ShutdownClosed == chanClosed /\ pc["main"] \in {"m_ret", "m_done"}

\* C28: once the frame channel is closed and OutputManager.Close has
\* returned, the handler stays Disconnected: the consumer's delivery of a
\* frame that was still buffered opens no new connection.
C28_StaysDisconnectedAfterClose ==
  ShutdownClosed => ~hdev
\* in the latest handler Output call the device was present and every
\* transfer of the sanity command and of the Blit (if any) succeeded
DeviceWorked ==
  /\ nxerr = NIL
  /\ conn.acquired
  /\ SanityAcked
  /\ cmd.name = "Blit" => \A i \in 1..Len(cmdlog) : cmdlog[i].ok

\* C29: an Output call that began Disconnected, found the device present and
\* had every transfer succeed has, when it returns, reconnected once, sent
\* its own frame in one Blit (envelope, payload, status), returned nil and
\* left the handler Connected.
C29_RecoveryInOneCall ==
  \A t \in Threads :
    (OutputReturned(t) /\ ~ostart /\ DeviceWorked) =>
      /\ Count(olog, <<"call", "tryConnect">>) = 1
      /\ Count(olog, <<"call", "Blit">>) = 1
      /\ cmd.name = "Blit"
      /\ cmd.dataLen = FrameW(img[t]) * FrameH(img[t]) * 2
      /\ StepsOf(cmdlog) = <<"env", "payload", "status">>
      /\ cmd.ret = NIL
      /\ oret = NIL
      /\ hdev
      /\ AllHeld(usb)

C29_Witness ==
  /\ OutputReturned("cons")
  /\ ~ostart
  /\ DeviceWorked
  /\ img["cons"] = 1
  /\ oret = NIL
  /\ hdev
  /\ usb.Width = 320
\* C30: at every coordinate outside the rectangle of an ImageRGB565,
\* RGB565At returns the zero colour, Set and SetRGB565 leave the pixel buffer
\* as it was, and none of them indexes outside the buffer.
C30_OutOfBoundsNoOp ==
  (fn.op = "Pixel" /\ fn.done) =>
    LET src == Src(fn.a[1])
        x == fn.a[2]
        y == fn.a[3]
        pix == NewRGB565Image(src).Pix
    IN (x < 0 \/ x >= src.w \/ y < 0 \/ y >= src.h) =>
         /\ fn.val = 0
         /\ fn.data = pix
         /\ fn.env = pix
         /\ ~fn.panic

C30_Witness ==
  /\ fn.op = "Pixel"
  /\ fn.done
  /\ Src(fn.a[1]).w = 2
  /\ Src(fn.a[1]).h = 2
  /\ fn.a[2] = 2
  /\ fn.a[3] = 0
  /\ fn.val = 0
  /\ Len(fn.data) = 8
  /\ fn.data[5] # 0
  /\ fn.data = fn.env

====
